---------------------------- MODULE Spec2Model ----------------------------
(***************************************************************************)
(* A model of monk: the chord theory and note event encoder of             *)
(* src/monk/midi.py, the project model and codec of src/monk/rpp.py and    *)
(* the tool layer and the chat loop of src/monk/llm.py.                    *)
(*                                                                         *)
(* Text is modelled as sequences of one-character strings, so that the     *)
(* string operations of the code (strip, replace, slicing, index, int)     *)
(* are computed as the code computes them.                                 *)
(***************************************************************************)
EXTENDS Integers, Sequences, FiniteSets, TLC

VARIABLES
    proj,    \* the in-memory ReaperProject (rpp.py:33-40), or NoProject
    disk,    \* the project file on disk: a sequence of lines, or NoFile
    files,   \* the music files on disk: path stem -> file content
    idGen,   \* number of identifiers uuid.uuid4() has handed to tracks
    call,    \* the last operation called, its arguments and its outcome
    messages, \* MusicLLM.messages (llm.py:208): the history sent to the model
    chat     \* the position of a running MusicLLM.chat call (llm.py:214-274)

vars == <<proj, disk, files, idGen, call, messages, chat>>

\* self.messages of a MusicLLM made for a project without a stored history
NoMessages == <<>>

\* no chat call is running; calls counts the chat calls made, uses the
\* tool-use blocks the model has sent
NoChat == [pc |-> "idle", iteration |-> 0, requests |-> 0, calls |-> 0, uses |-> 0]

(***************************************************************************)
(* Bounds of the model.                                                    *)
(***************************************************************************)
MaxOctave == 10     \* octaves OctaveLow..MaxOctave are tried
MaxNotes == 2       \* notes in one call of create_midi_file
MaxStart == 2       \* start of a note, in units of 1/BeatDen beat
MaxDur == 2         \* duration of a note, in units of 1/BeatDen beat
MaxTracks == 2      \* tracks a project grows to by add_track
MaxItems == 2       \* items a project grows to by add_midi_item
MaxLines == 3       \* lines of a project text written by hand
OctavesBelow == 2   \* octaves -OctavesBelow..MaxOctave are tried
MaxChords == 2      \* chords in one progression
MaxDrums == 2       \* drums in one pattern
MaxPlaced == 1      \* items the tools place on a project
MaxNegDur == 2      \* a degenerate note lasts -MaxNegDur..0 units of 1/BeatDen beat
MaxNested == 6      \* lines of a project text with a nested block
MaxChats == 2       \* chat calls made on one MusicLLM

OctaveLow == 0 - OctavesBelow

(***************************************************************************)
(* Generic helpers on sequences.                                           *)
(***************************************************************************)
Range(s) == {s[i] : i \in 1..Len(s)}

\* s[a:] of Python, a a 0-based offset
From(s, a) == SubSeq(s, a + 1, Len(s))

\* s[:a] of Python
Upto(s, a) == SubSeq(s, 1, IF a < Len(s) THEN a ELSE Len(s))

\* list.index(x), 0-based; -1 stands for the ValueError of a missing element
IndexOf(s, x) ==
    IF \E i \in 1..Len(s) : s[i] = x
    THEN (CHOOSE i \in 1..Len(s) : s[i] = x /\ \A j \in 1..(i - 1) : s[j] # x) - 1
    ELSE -1

RECURSIVE RemoveAll(_, _)
\* str.replace(c, "")
RemoveAll(s, c) ==
    IF s = <<>> THEN <<>>
    ELSE IF Head(s) = c THEN RemoveAll(Tail(s), c)
    ELSE <<Head(s)>> \o RemoveAll(Tail(s), c)

RECURSIVE LStrip(_)
LStrip(s) == IF s # <<>> /\ Head(s) = " " THEN LStrip(Tail(s)) ELSE s

RECURSIVE RStrip(_)
RStrip(s) ==
    IF s # <<>> /\ s[Len(s)] = " " THEN RStrip(SubSeq(s, 1, Len(s) - 1)) ELSE s

\* str.strip() (blanks are the only white space of the model's alphabet)
Strip(s) == LStrip(RStrip(s))

\* str.upper(), one character
UpperChar(c) ==
    CASE c = "a" -> "A" [] c = "b" -> "B" [] c = "c" -> "C" [] c = "d" -> "D"
      [] c = "e" -> "E" [] c = "f" -> "F" [] c = "g" -> "G" [] c = "h" -> "H"
      [] c = "m" -> "M" [] c = "x" -> "X"
      [] OTHER -> c

Upper(s) == [i \in 1..Len(s) |-> UpperChar(s[i])]

Digits == <<"0", "1", "2", "3", "4", "5", "6", "7", "8", "9">>

IsDigit(c) == c \in Range(Digits)

DigitVal(c) == IndexOf(Digits, c)

RECURSIVE DigitsVal(_)
DigitsVal(s) ==
    IF s = <<>> THEN 0
    ELSE 10 * DigitsVal(SubSeq(s, 1, Len(s) - 1)) + DigitVal(s[Len(s)])

\* int(s): an optional sign and at least one decimal digit; anything else is
\* a ValueError (ok = FALSE)
ParseInt(s) ==
    LET body == IF s # <<>> /\ s[1] \in {"-", "+"} THEN Tail(s) ELSE s
        good == body # <<>> /\ \A i \in 1..Len(body) : IsDigit(body[i])
    IN  IF ~good THEN [ok |-> FALSE, val |-> 0]
        ELSE [ok |-> TRUE,
              val |-> IF s[1] = "-" THEN 0 - DigitsVal(body) ELSE DigitsVal(body)]

RECURSIVE NatToStr(_)
NatToStr(n) ==
    IF n < 10 THEN <<Digits[n + 1]>>
    ELSE NatToStr(n \div 10) \o <<Digits[(n % 10) + 1]>>

\* str(n) of an int, as the f-string of parse_chord formats the octave
IntToStr(n) == IF n < 0 THEN <<"-">> \o NatToStr(0 - n) ELSE NatToStr(n)

(***************************************************************************)
(* ChordTheory: src/monk/midi.py                                           *)
(***************************************************************************)
TICKS_PER_BEAT == 480

NOTE_NAMES ==
    << <<"C">>, <<"C", "#">>, <<"D">>, <<"D", "#">>, <<"E">>, <<"F">>,
       <<"F", "#">>, <<"G">>, <<"G", "#">>, <<"A">>, <<"A", "#">>, <<"B">> >>

\* quality suffix -> semitone offsets from the root
CHORD_INTERVALS ==
    { [q |-> <<>>, iv |-> <<0, 4, 7>>],
      [q |-> <<"m", "a", "j">>, iv |-> <<0, 4, 7>>],
      [q |-> <<"m">>, iv |-> <<0, 3, 7>>],
      [q |-> <<"m", "i", "n">>, iv |-> <<0, 3, 7>>],
      [q |-> <<"7">>, iv |-> <<0, 4, 7, 10>>],
      [q |-> <<"m", "a", "j", "7">>, iv |-> <<0, 4, 7, 11>>],
      [q |-> <<"m", "7">>, iv |-> <<0, 3, 7, 10>>],
      [q |-> <<"m", "i", "n", "7">>, iv |-> <<0, 3, 7, 10>>],
      [q |-> <<"d", "i", "m">>, iv |-> <<0, 3, 6>>],
      [q |-> <<"d", "i", "m", "7">>, iv |-> <<0, 3, 6, 9>>],
      [q |-> <<"a", "u", "g">>, iv |-> <<0, 4, 8>>],
      [q |-> <<"s", "u", "s", "2">>, iv |-> <<0, 2, 7>>],
      [q |-> <<"s", "u", "s", "4">>, iv |-> <<0, 5, 7>>],
      [q |-> <<"a", "d", "d", "9">>, iv |-> <<0, 4, 7, 14>>],
      [q |-> <<"9">>, iv |-> <<0, 4, 7, 10, 14>>] }

Qualities == {e.q : e \in CHORD_INTERVALS}

IntervalsOf(q) == (CHOOSE e \in CHORD_INTERVALS : e.q = q).iv

\* outcomes of a call: a value, or the exception raised
Ok(v) == [ok |-> TRUE, val |-> v, err |-> "none"]
Raise(e) == [ok |-> FALSE, val |-> 0, err |-> e]

\* note_name_to_midi(name), statement by statement
note_name_to_midi(name0) ==
    LET name1 == Strip(name0)                                  \* line 84
        name == RemoveAll(name1, "b")                          \* line 87
    IN  IF Len(name) < 2 THEN Raise("ValueError")              \* lines 93-94
        ELSE
        LET sharp == name[2] = "#"                             \* line 96
            note_part0 == IF sharp THEN Upto(name, 2) ELSE Upto(name, 1)
            octave_part0 == IF sharp THEN From(name, 2) ELSE From(name, 1)
            flat == "b" \in Range(octave_part0)                \* line 104
            flat_idx == IndexOf(NOTE_NAMES, Upper(note_part0)) \* line 106
        IN  IF flat /\ flat_idx < 0 THEN Raise("ValueError")
            ELSE
            LET octave_part == IF flat THEN RemoveAll(octave_part0, "b")
                               ELSE octave_part0
                note_part == IF flat THEN NOTE_NAMES[((flat_idx - 1) % 12) + 1]
                             ELSE note_part0
                note_idx == IndexOf(NOTE_NAMES, Upper(note_part))  \* line 111
                octave == ParseInt(octave_part)                    \* line 112
            IN  IF note_idx < 0 \/ ~octave.ok THEN Raise("ValueError")
                ELSE
                LET midi_num == (octave.val + 1) * 12 + note_idx   \* line 116
                IN  IF ~(0 <= midi_num /\ midi_num <= 127)
                    THEN Raise("ValueError")
                    ELSE Ok(midi_num)

\* a mutant of midi_to_note_name: the octave is not lowered by one
midi_to_note_name_octave_up(midi_num) ==
    NOTE_NAMES[(midi_num % 12) + 1] \o IntToStr(midi_num \div 12)

\* midi_to_note_name(midi_num)
midi_to_note_name(midi_num) ==
    LET octave == (midi_num \div 12) - 1
        note_idx == midi_num % 12
    IN  NOTE_NAMES[note_idx + 1] \o IntToStr(octave)

\* the end of parse_chord, lines 161-170: root_midi is the outcome of
\* note_name_to_midi on the root
ChordPitches(root_midi, quality) ==
    IF ~root_midi.ok THEN root_midi
    ELSE IF quality \notin Qualities THEN Raise("ValueError")
    ELSE [ok |-> TRUE, err |-> "none",
          val |-> [i \in 1..Len(IntervalsOf(quality)) |->
                      root_midi.val + IntervalsOf(quality)[i]]]

\* parse_chord on the stripped name: the root is one letter, or two with an
\* accidental; the rest is the quality
ParseStripped(chord_name, octave) ==
    IF chord_name = <<>> THEN Raise("IndexError")              \* chord_name[0]
    ELSE IF Len(chord_name) >= 2 /\ chord_name[2] \in {"#", "b"}
    THEN ChordPitches(note_name_to_midi(Upto(chord_name, 2) \o IntToStr(octave)),
                      From(chord_name, 2))
    ELSE ChordPitches(note_name_to_midi(Upto(chord_name, 1) \o IntToStr(octave)),
                      From(chord_name, 1))

\* parse_chord(chord_name, octave)
parse_chord(chord_name0, octave) == ParseStripped(Strip(chord_name0), octave)

(***************************************************************************)
(* NoteEventEncoder: src/monk/midi.py                                      *)
(*                                                                         *)
(* Beats are rationals k/BeatDen, held as the integer k, so that the       *)
(* float-to-int conversions of the code are computed, not assumed.         *)
(***************************************************************************)
BeatDen == 2 * TICKS_PER_BEAT

\* int(x) of the float a/b, b > 0: truncation towards zero
IntTrunc(a, b) == IF a >= 0 THEN a \div b ELSE 0 - ((0 - a) \div b)

\* Note.start_ticks(ticks_per_beat)
start_ticks(note, ticks_per_beat) ==
    IntTrunc(note.start_beat * ticks_per_beat, BeatDen)

\* Note.duration_ticks(ticks_per_beat)
duration_ticks(note, ticks_per_beat) ==
    IntTrunc(note.duration_beats * ticks_per_beat, BeatDen)

Event(t, type, pitch, velocity) ==
    [t |-> t, type |-> type, pitch |-> pitch, velocity |-> velocity]

RECURSIVE NoteEvents(_, _)
\* the loop of lines 196-201: an on and an off event per note, in input order
NoteEvents(notes, ticks_per_beat) ==
    IF notes = <<>> THEN <<>>
    ELSE LET note == Head(notes)
             start == start_ticks(note, ticks_per_beat)
             end == start + duration_ticks(note, ticks_per_beat)
         IN  << Event(start, "note_on", note.pitch, note.velocity),
                Event(end, "note_off", note.pitch, 0) >>
             \o NoteEvents(Tail(notes), ticks_per_beat)

\* the sort key of line 204, (e[0], e[1] == "note_on"), compared as Python
\* compares tuples (False < True)
KeyLess(a, b) ==
    \/ a.t < b.t
    \/ a.t = b.t /\ a.type # "note_on" /\ b.type = "note_on"

\* e inserted behind every element whose key is not greater than its own
InsertSorted(sorted, e) ==
    LET n == Cardinality({i \in 1..Len(sorted) : ~KeyLess(e, sorted[i])})
    IN  SubSeq(sorted, 1, n) \o <<e>> \o SubSeq(sorted, n + 1, Len(sorted))

RECURSIVE SortFrom(_, _)
SortFrom(sorted, rest) ==
    IF rest = <<>> THEN sorted
    ELSE SortFrom(InsertSorted(sorted, Head(rest)), Tail(rest))

\* a mutant of SortEvents: the key is the tick alone
SortEventsByTickOnly(events) ==
    LET ins(sorted, e) ==
            LET n == Cardinality({i \in 1..Len(sorted) : sorted[i].t <= e.t})
            IN  SubSeq(sorted, 1, n) \o <<e>> \o SubSeq(sorted, n + 1, Len(sorted))
        f[i \in 0..Len(events)] ==
            IF i = 0 THEN <<>> ELSE ins(f[i - 1], events[i])
    IN  f[Len(events)]

\* events.sort(key=...), line 204: list.sort is stable
SortEvents(events) == SortFrom(<<>>, events)

Msg(type, note, velocity, time, tempo) ==
    [type |-> type, note |-> note, velocity |-> velocity, time |-> time,
     tempo |-> tempo]

\* a mutant of DeltaMessages: every time is taken from the start, the
\* current time never advances
DeltaMessagesFromStart(events, current_time) ==
    [i \in 1..Len(events) |->
        Msg(events[i].type, events[i].pitch, events[i].velocity,
            events[i].t - current_time, 0)]

RECURSIVE DeltaMessages(_, _)
\* the loop of lines 207-211: delta times relative to the previous event
DeltaMessages(events, current_time) ==
    IF events = <<>> THEN <<>>
    ELSE LET e == Head(events)
         IN  <<Msg(e.type, e.pitch, e.velocity, e.t - current_time, 0)>>
             \o DeltaMessages(Tail(events), e.t)

\* mido.bpm2tempo: microseconds per beat, rounded to the nearest integer
bpm2tempo(bpm) == (2 * 60000000 + bpm) \div (2 * bpm)

\* what mido.Message accepts, line 210: data bytes in 0..127, a time of any
\* sign
ValidMessage(m) ==
    /\ m.note \in 0..127
    /\ m.velocity \in 0..127

\* mid.save raised, line 216: the file was opened for writing before the
\* track was encoded, so it is left without a track
RaiseInSave(e) == [ok |-> FALSE, val |-> 0, err |-> e, in_save |-> TRUE]

\* a call of create_midi_file that ended in mid.save
TruncatedBySave(out) == ~out.ok /\ "in_save" \in DOMAIN out

\* lines 189-193 and 207-216 of create_midi_file: the track with the tempo
\* message, the note messages msgs and the end of track; Message refuses a
\* data byte out of range before anything is written, and mid.save refuses
\* a negative delta time
SaveTrack(msgs, tempo_bpm, ticks_per_beat) ==
    IF \E i \in 1..Len(msgs) : ~ValidMessage(msgs[i])
    THEN Raise("ValueError")
    ELSE IF \E i \in 1..Len(msgs) : msgs[i].time < 0
    THEN RaiseInSave("ValueError")
    ELSE Ok([ticks_per_beat |-> ticks_per_beat,
             track |-> <<Msg("set_tempo", 0, 0, 0, bpm2tempo(tempo_bpm))>>
                       \o msgs
                       \o <<Msg("end_of_track", 0, 0, 0, 0)>>])

\* create_midi_file(output_path, notes, tempo_bpm, ticks_per_beat): the track
\* it saves, or the error raised before anything is written
create_midi_file(notes, tempo_bpm, ticks_per_beat) ==
    SaveTrack(DeltaMessages(SortEvents(NoteEvents(notes, ticks_per_beat)), 0),
              tempo_bpm, ticks_per_beat)

(***************************************************************************)
(* Project text: src/monk/rpp.py                                           *)
(*                                                                         *)
(* A line is held as it is after line.strip(): its first word (the key)    *)
(* and the tokens that follow. A token is a number (with or without a      *)
(* decimal point), a double-quoted string, a braced identifier or any      *)
(* other word. A quoted string is a sequence of chunks; the chunk Q is a   *)
(* double quote character inside it.                                       *)
(***************************************************************************)
Q == "\""

Tok(t, s, n, dot) == [t |-> t, s |-> s, n |-> n, dot |-> dot]
W(w) == Tok("word", <<w>>, 0, FALSE)
N(v) == Tok("num", <<>>, v, FALSE)
Fl(v) == Tok("num", <<>>, v, TRUE)
Qd(s) == Tok("quoted", s, 0, FALSE)
Br(g) == Tok("braced", g, 0, FALSE)

L(key, args) == [key |-> key, args |-> args]

\* a tempo is an int or a float of integral value
Float(v) == [v |-> v, float |-> TRUE]
Int_(v) == [v |-> v, float |-> FALSE]

\* str(x) of a number, as an f-string formats it: a float shows a point
FormatNum(x) == IF x.float THEN Fl(x.v) ELSE N(x.v)

\* float(token): a ValueError unless the token is a number
ParseFloat(tok) == IF tok.t = "num" THEN Ok(Float(tok.n)) ELSE Raise("ValueError")

\* int(token): a ValueError unless the token is a number without a point
ParseIntTok(tok) ==
    IF tok.t = "num" /\ ~tok.dot THEN Ok(tok.n) ELSE Raise("ValueError")

\* line.startswith(key + " "), on a stripped line
StartsWith(line, key) == line.key = key /\ line.args # <<>>

\* re.search(r'"([^"]*)"', line): the first quoted stretch of the line, which
\* ends at the first double quote after the opening one
SearchQuoted(line) ==
    LET qs == {i \in 1..Len(line.args) : line.args[i].t = "quoted"}
    IN  IF qs = {} THEN [match |-> FALSE, group |-> <<>>]
        ELSE LET i == CHOOSE j \in qs : \A k \in qs : j <= k
                 s == line.args[i].s
                 n == IndexOf(s, Q)
             IN  [match |-> TRUE, group |-> IF n < 0 THEN s ELSE Upto(s, n)]

\* re.search(r"\{([^}]+)\}", line): the first non-empty braced stretch
SearchBraced(line) ==
    LET bs == {i \in 1..Len(line.args) :
                  line.args[i].t = "braced" /\ line.args[i].s # <<>>}
    IN  IF bs = {} THEN [match |-> FALSE, group |-> <<>>]
        ELSE [match |-> TRUE,
              group |-> line.args[CHOOSE j \in bs : \A k \in bs : j <= k].s]

\* str(uuid.uuid4()) for the n-th identifier handed to a track
Uuid(n) == <<"uuid-">> \o NatToStr(n)

\* the identifiers the item and FX blocks of a saved text carry: fresh on
\* every save and never read back
FreshId == <<"uuid-fresh">>

(***************************************************************************)
(* ProjectModel: src/monk/rpp.py                                           *)
(***************************************************************************)
MidiItem(path, position, length) ==
    [path |-> path, position |-> position, length |-> length]

Track(name, index, guid) ==
    [name |-> name, index |-> index, guid |-> guid, midi_items |-> <<>>]

DEFAULT_TEMPO == 120
DEFAULT_SAMPLE_RATE == 44100
DEFAULT_RENDER_FILE == <<"render">>

\* ReaperProject.__init__ before any load
NewProject(path) ==
    [path |-> path, tempo |-> Float(DEFAULT_TEMPO),
     sample_rate |-> DEFAULT_SAMPLE_RATE, render_file |-> DEFAULT_RENDER_FILE,
     tracks |-> <<>>, raw_lines |-> <<>>]

\* one pass of the first loop of _load, lines 53-66; st.res is the exception
\* raised, if any, and ends the loop
LoadMetaLine(line, st) ==
    IF ~st.res.ok THEN st
    ELSE IF StartsWith(line, "TEMPO")
    THEN LET r == ParseFloat(line.args[1])
         IN  IF r.ok THEN [st EXCEPT !.tempo = r.val]
             ELSE [st EXCEPT !.res = r]
    ELSE IF StartsWith(line, "SAMPLERATE")
    THEN LET r == ParseIntTok(line.args[1])
         IN  IF r.ok THEN [st EXCEPT !.sample_rate = r.val]
             ELSE [st EXCEPT !.res = r]
    ELSE IF StartsWith(line, "RENDER_FILE")
    THEN LET m == SearchQuoted(line)
         IN  IF m.match THEN [st EXCEPT !.render_file = m.group] ELSE st
    ELSE st

RECURSIVE LoadMeta(_, _, _, _)
\* the first loop of _load over lines[lo..hi], in order: the first half of
\* the range, then, unless it raised, the second half
LoadMeta(lines, lo, hi, st) ==
    IF lo > hi THEN st
    ELSE IF lo = hi THEN LoadMetaLine(lines[lo], st)
    ELSE LET mid == (lo + hi) \div 2
             left == LoadMeta(lines, lo, mid, st)
         IN  IF left.res.ok THEN LoadMeta(lines, mid + 1, hi, left) ELSE left

\* no ReaperProject object: the constructor raised
NoProject == NewProject("none")

\* the project file: absent, or the lines written to it
NoFile == [exists |-> FALSE, lines |-> <<>>]
TextFile(lines) == [exists |-> TRUE, lines |-> lines]

NoTrack == Track(<<>>, -1, <<>>)

\* one pass of the second loop of _load, lines 74-93; st.has is
\* "current_track is not None", st.ids counts the identifiers generated
LoadTracksLine(line, st) ==
    IF line.key = "<TRACK"
    THEN LET m == SearchBraced(line)
             guid == IF m.match THEN m.group ELSE Uuid(st.ids)
         IN  [st EXCEPT
                !.in_track = TRUE,
                !.has = TRUE,
                !.current_track =
                    Track(<<"Track ">> \o NatToStr(st.track_idx + 1),
                          st.track_idx, guid),
                !.track_idx = st.track_idx + 1,
                !.ids = IF m.match THEN st.ids ELSE st.ids + 1]
    ELSE IF st.in_track /\ StartsWith(line, "NAME")
    THEN LET m == SearchQuoted(line)
         IN  IF m.match /\ st.has
             THEN [st EXCEPT !.current_track.name = m.group]
             ELSE st
    ELSE IF st.in_track /\ line.key = ">" /\ line.args = <<>>
    THEN [st EXCEPT
            !.tracks = IF st.has THEN Append(st.tracks, st.current_track)
                       ELSE st.tracks,
            !.has = FALSE,
            !.current_track = NoTrack,
            !.in_track = FALSE]
    ELSE st

RECURSIVE LoadTracks(_, _, _, _)
\* the second loop of _load over lines[lo..hi], in order: the first half of
\* the range, then the second half from the state the first one left (the
\* track counter only grows, so the second half always runs)
LoadTracks(lines, lo, hi, st) ==
    IF lo > hi THEN st
    ELSE IF lo = hi THEN LoadTracksLine(lines[lo], st)
    ELSE LET mid == (lo + hi) \div 2
             left == LoadTracks(lines, lo, mid, st)
         IN  IF left.track_idx >= st.track_idx
             THEN LoadTracks(lines, mid + 1, hi, left)
             ELSE left

\* ReaperProject(path) on an existing file: _load, lines 45-93. The result is
\* the project and the identifier count, or the exception that ends the
\* constructor
Load(path, lines, ids) ==
    LET p0 == NewProject(path)
        meta == LoadMeta(lines, 1, Len(lines), [tempo |-> p0.tempo, sample_rate |-> p0.sample_rate,
                                 render_file |-> p0.render_file, res |-> Ok(0)])
        tr == LoadTracks(lines, 1, Len(lines), [tracks |-> <<>>, in_track |-> FALSE, has |-> FALSE,
                                 current_track |-> NoTrack, track_idx |-> 0,
                                 ids |-> ids])
    IN  IF ~meta.res.ok THEN [res |-> meta.res, proj |-> NoProject, ids |-> ids]
        ELSE [res |-> Ok(0),
              proj |-> [path |-> path, tempo |-> meta.tempo,
                        sample_rate |-> meta.sample_rate,
                        render_file |-> meta.render_file,
                        tracks |-> tr.tracks,
                        raw_lines |-> lines],                  \* line 50
              ids |-> tr.ids]

(***************************************************************************)
(* ProjectCodec, serialization: src/monk/rpp.py                            *)
(***************************************************************************)
\* no synthesizer is written
generate_reasynth_fx_none == <<>>

\* _generate_reasynth_fx, lines 189-209
generate_reasynth_fx ==
    << L("<FXCHAIN", <<>>),
       L("SHOW", <<N(0)>>),
       L("LASTSEL", <<N(0)>>),
       L("DOCKED", <<N(0)>>),
       L("BYPASS", <<N(0), N(0), N(0)>>),
       L("<VST", <<Qd(<<"VSTi: ReaSynth (Cockos)">>), W("reasynth.vst.dylib"),
                   N(0), Qd(<<>>), W("1919251321<5653546872736E7265617379>")>>),
       L("eXNlcu5e7f4CAAAA", <<>>),
       L("AAAAAAAAAAAAQAAA", <<>>),
       L("AAAAAAAAAAAAAAAA", <<>>),
       L("AAAQAAAA", <<>>),
       L(">", <<>>),
       L("FLOATPOS", <<N(0), N(0), N(0), N(0)>>),
       L("FXID", <<Br(FreshId)>>),
       L("WAK", <<N(0), N(0)>>),
       L(">", <<>>) >>

\* _generate_midi_item(item), lines 211-240
generate_midi_item(item) ==
    << L("<ITEM", <<>>),
       L("POSITION", <<Fl(item.position)>>),
       L("SNAPOFFS", <<N(0)>>),
       L("LENGTH", <<Fl(item.length)>>),
       L("LOOP", <<N(1)>>),
       L("ALLTAKES", <<N(0)>>),
       L("FADEIN", <<N(1), W("0.01"), N(0), N(1), N(0), N(0), N(0)>>),
       L("FADEOUT", <<N(1), W("0.01"), N(0), N(1), N(0), N(0), N(0)>>),
       L("MUTE", <<N(0), N(0)>>),
       L("SEL", <<N(0)>>),
       L("IGUID", <<Br(FreshId)>>),
       L("IID", <<N(1)>>),
       L("NAME", <<Qd(<<item.path.stem>>)>>),
       L("VOLPAN", <<N(1), N(0), N(1), N(-1)>>),
       L("PLAYRATE", <<N(1), N(1), N(0), N(-1), N(0), W("0.0025")>>),
       L("CHANMODE", <<N(0)>>),
       L("GUID", <<Br(FreshId)>>),
       L("<SOURCE", <<W("MIDI")>>),
       L("HASDATA", <<N(1), N(960), W("QN")>>),
       L("FILE", <<Qd(<<item.path.dir, "/", item.path.stem, item.path.suffix>>)>>),
       L(">", <<>>),
       L(">", <<>>) >>

RECURSIVE GenerateItems(_)
GenerateItems(items) ==
    IF items = <<>> THEN <<>>
    ELSE generate_midi_item(Head(items)) \o GenerateItems(Tail(items))

\* _generate_track(track, add_synth=True), lines 158-187
generate_track(track) ==
    << L("<TRACK", <<Br(track.guid)>>),
       L("NAME", <<Qd(track.name)>>),
       L("PEAKCOL", <<N(16576)>>),
       L("BEAT", <<N(-1)>>),
       L("AUTOMODE", <<N(0)>>),
       L("VOLPAN", <<N(1), N(0), N(-1), N(-1), N(1)>>),
       L("REC", <<N(0), N(0), N(1), N(0), N(0), N(0), N(0), N(0)>>),
       L("VU", <<N(2)>>),
       L("NCHAN", <<N(2)>>),
       L("FX", <<N(1)>>),
       L("TRACKID", <<Br(track.guid)>>),
       L("PERF", <<N(0)>>),
       L("MIDIOUT", <<N(-1)>>),
       L("MAINSEND", <<N(1), N(0)>>) >>
    \o (IF track.midi_items # <<>> THEN generate_reasynth_fx ELSE <<>>)
    \o GenerateItems(track.midi_items)
    \o << L(">", <<>>) >>

RECURSIVE GenerateTracks(_)
GenerateTracks(tracks) ==
    IF tracks = <<>> THEN <<>>
    ELSE generate_track(Head(tracks)) \o GenerateTracks(Tail(tracks))

\* _generate_new_project, lines 122-156
generate_new_project(p) ==
    << L("<REAPER_PROJECT", <<W("0.1"), Qd(<<"7.0">>), N(1704067200)>>),
       L("RIPPLE", <<N(0)>>),
       L("GROUPOVERRIDE", <<N(0), N(0), N(0)>>),
       L("AUTOXFADE", <<N(1)>>),
       L("SAMPLERATE", <<N(p.sample_rate), N(0), N(0)>>),
       L("TEMPO", <<FormatNum(p.tempo), N(4), N(4)>>),
       L("PLAYRATE", <<N(1), N(0), W("0.25"), N(4)>>),
       L("MASTERTRACKHEIGHT", <<N(0), N(0)>>),
       L("MASTERTRACKVIEW", <<N(0), W("0.6667"), W("0.5"), W("0.5"), N(-1), N(-1),
                              N(-1), N(0), N(0), N(0), N(-1), N(-1), N(0)>>),
       L("MASTERHWOUT", <<N(0), N(0), N(1), N(0), N(0), N(0), N(0), N(-1)>>),
       L("MASTER_NCH", <<N(2), N(2)>>),
       L("MASTER_VOLUME", <<N(1), N(0), N(-1), N(-1), N(1)>>),
       L("MASTER_FX", <<N(1)>>),
       L("MASTER_SEL", <<N(0)>>),
       L("RENDER_FILE", <<Qd(p.render_file)>>),
       L("RENDER_PATTERN", <<Qd(<<>>)>>),
       L("RENDER_FMT", <<N(0), N(2), N(0)>>),
       L("RENDER_1X", <<N(0)>>),
       L("RENDER_RANGE", <<N(1), N(0), N(0), N(18), N(1000)>>),
       L("RENDER_RESAMPLE", <<N(3), N(0), N(1)>>),
       L("RENDER_ADDTOPROJ", <<N(0)>>),
       L("RENDER_STEMS", <<N(0)>>),
       L("RENDER_DITHER", <<N(0)>>) >>
    \o GenerateTracks(p.tracks)
    \o << L(">", <<>>) >>

(***************************************************************************)
(* ProjectModel, operations: src/monk/rpp.py                               *)
(***************************************************************************)
\* set_tempo(bpm)
set_tempo(p, bpm) == [p EXCEPT !.tempo = bpm]

\* set_render_file(filename)
set_render_file(p, filename) == [p EXCEPT !.render_file = filename]

\* a mutant of save: a loaded project is written as the text it was read from
save_raw_lines(p) ==
    IF p.raw_lines # <<>> THEN [exists |-> TRUE, lines |-> p.raw_lines]
    ELSE [exists |-> TRUE, lines |-> generate_new_project(p)]

\* a mutant of add_track: the index counts from one
add_track_from_one(p, name, ids) ==
    LET track == Track(name, Len(p.tracks) + 1, Uuid(ids))
    IN  [proj |-> [p EXCEPT !.tracks = Append(p.tracks, track)], track |-> track,
         ids |-> ids + 1]

\* add_track(name): the project, the track returned and the identifier count
add_track(p, name, ids) ==
    LET track == Track(name, Len(p.tracks), Uuid(ids))
    IN  [proj |-> [p EXCEPT !.tracks = Append(p.tracks, track)], track |-> track,
         ids |-> ids + 1]

\* a path of the music directory
MidiPath(stem) == [dir |-> "midi", stem |-> stem, suffix |-> ".mid"]

\* a file that is no music file
Undecodable == [ticks_per_beat |-> 0, track |-> <<>>]

RECURSIVE SumTimes(_, _)
\* the delta times of the first n messages, added up
SumTimes(msgs, n) == IF n = 0 THEN 0 ELSE SumTimes(msgs, n - 1) + msgs[n].time

\* mido.MidiFile(path).length: the file's total duration, held in ticks of the
\* file; a missing or undecodable file raises
MidiLength(fs, path) ==
    IF path.stem \notin DOMAIN fs THEN Raise("FileNotFoundError")
    ELSE IF fs[path.stem] = Undecodable THEN Raise("OSError")
    ELSE Ok(SumTimes(fs[path.stem].track, Len(fs[path.stem].track)))

\* an optional argument
None == [given |-> FALSE, v |-> 0]
Some(v) == [given |-> TRUE, v |-> v]

\* a mutant of add_midi_item: the item is appended before the length is read
add_midi_item_append_first(p, track_index, midi_path, position, length, fs) ==
    LET n == Len(p.tracks)
        i == IF track_index < 0 THEN track_index + n ELSE track_index
        len == IF length.given THEN Ok(length.v) ELSE MidiLength(fs, midi_path)
        item == MidiItem(midi_path, position, len.val)
        q == IF i \in 0..(n - 1)
             THEN [p EXCEPT !.tracks[i + 1].midi_items = Append(@, item)]
             ELSE p
    IN  IF i \notin 0..(n - 1) THEN [res |-> Raise("IndexError"), proj |-> p]
        ELSE IF ~len.ok THEN [res |-> len, proj |-> q]
        ELSE [res |-> Ok(0), proj |-> q]

\* lines 281-282 of add_midi_item: the item is appended to
\* self.tracks[track_index], len being the length given or read; a negative
\* index counts from the end of the list
AppendItem(p, track_index, midi_path, position, len) ==
    IF ~len.ok THEN [res |-> len, proj |-> p]
    ELSE IF track_index + Len(p.tracks) < 0
    THEN [res |-> Raise("IndexError"), proj |-> p]
    ELSE [res |-> Ok(0),
          proj |-> [p EXCEPT
                      !.tracks[(IF track_index < 0
                                THEN track_index + Len(p.tracks)
                                ELSE track_index) + 1].midi_items =
                          Append(@, MidiItem(midi_path, position, len.val))]]

\* add_midi_item(track_index, midi_path, position, length), lines 271-282:
\* the outcome and the project after the call
add_midi_item(p, track_index, midi_path, position, length, fs) ==
    IF track_index >= Len(p.tracks)
    THEN [res |-> Raise("IndexError"), proj |-> p]               \* lines 271-272
    ELSE AppendItem(p, track_index, midi_path, position,
                    IF length.given THEN Ok(length.v)
                    ELSE MidiLength(fs, midi_path))              \* lines 275-279

\* save(), lines 100-112: the text written to the project's path
save(p) == TextFile(generate_new_project(p))

(***************************************************************************)
(* PatternGenerators: src/monk/midi.py                                     *)
(***************************************************************************)
Note(pitch, start_beat, duration_beats, velocity) ==
    [pitch |-> pitch, start_beat |-> start_beat,
     duration_beats |-> duration_beats, velocity |-> velocity]

\* a number of beats, in units of 1/BeatDen beat
Beats(n) == n * BeatDen

\* 0.1 beat
TenthBeat == BeatDen \div 10

GM_DRUMS ==
    << [name |-> "kick", pitch |-> 36], [name |-> "snare", pitch |-> 38],
       [name |-> "rimshot", pitch |-> 37], [name |-> "clap", pitch |-> 39],
       [name |-> "hihat_closed", pitch |-> 42], [name |-> "hihat_open", pitch |-> 46],
       [name |-> "hihat_pedal", pitch |-> 44], [name |-> "tom_low", pitch |-> 45],
       [name |-> "tom_mid", pitch |-> 47], [name |-> "tom_high", pitch |-> 50],
       [name |-> "crash", pitch |-> 49], [name |-> "ride", pitch |-> 51],
       [name |-> "ride_bell", pitch |-> 53] >>

\* list(GM_DRUMS.keys())
DrumKeys == [i \in 1..Len(GM_DRUMS) |-> GM_DRUMS[i].name]

DrumPitch(name) == (CHOOSE i \in 1..Len(GM_DRUMS) : GM_DRUMS[i].name = name)

\* an exception that carries the drum it names and the list of valid names
UnknownDrum(drum) ==
    [ok |-> FALSE, val |-> [drum |-> drum, valid |-> DrumKeys], err |-> "ValueError"]

\* the notes of one pass of a generator's loop, followed by the notes of the
\* passes after it, unless one of those raised
NotesThen(here, rest) == IF ~rest.ok THEN rest ELSE Ok(here \o rest.val)

\* the last line of both generators: the notes are encoded, unless the loop
\* raised
WriteNotes(notes, tempo_bpm) ==
    IF ~notes.ok THEN notes
    ELSE create_midi_file(notes.val, tempo_bpm, TICKS_PER_BEAT)

\* a mutant of lines 242-250: the notes last the whole chord
ChordHereNoGap(pitches, start_beat, beats_per_chord, velocity) ==
    [k \in 1..Len(pitches) |->
        Note(pitches[k], start_beat, beats_per_chord, velocity)]

\* lines 242-250: a note per pitch of the chord
ChordHere(pitches, start_beat, beats_per_chord, velocity) ==
    [k \in 1..Len(pitches) |->
        Note(pitches[k], start_beat, beats_per_chord - TenthBeat, velocity)]

RECURSIVE ChordNotes(_, _, _, _, _)
\* one pass of the loop of create_chord_progression, chord_notes being the
\* outcome of parse_chord on chord i
ChordPass(chord_notes, chords, i, beats_per_chord, velocity, octave) ==
    IF ~chord_notes.ok THEN chord_notes
    ELSE NotesThen(ChordHere(chord_notes.val, i * beats_per_chord,
                             beats_per_chord, velocity),
                   ChordNotes(chords, i + 1, beats_per_chord, velocity, octave))

\* the loop of create_chord_progression, lines 239-251, from chord i on:
\* the notes, or the exception parse_chord raised
ChordNotes(chords, i, beats_per_chord, velocity, octave) ==
    IF i >= Len(chords) THEN Ok(<<>>)
    ELSE ChordPass(parse_chord(chords[i + 1], octave), chords, i,
                   beats_per_chord, velocity, octave)

\* create_chord_progression(output_path, chords, beats_per_chord, tempo_bpm,
\* velocity, octave): the file written, or the exception raised before it
create_chord_progression(chords, beats_per_chord, tempo_bpm, velocity, octave) ==
    WriteNotes(ChordNotes(chords, 0, beats_per_chord, velocity, octave), tempo_bpm)

\* lines 281-291: for every bar, a short hit at every beat of the drum
DrumHere(pitch, beats, bars, velocity) ==
    [k \in 1..(bars * Len(beats)) |->
        Note(pitch,
             Beats(((k - 1) \div Len(beats)) * 4) + beats[((k - 1) % Len(beats)) + 1],
             TenthBeat, velocity)]

RECURSIVE DrumNotes(_, _, _, _)
\* the loop of create_drum_pattern, lines 275-291, from item i on; pattern is
\* the dict as the sequence of its items
DrumNotes(pattern, i, bars, velocity) ==
    IF i > Len(pattern) THEN Ok(<<>>)
    ELSE IF pattern[i].name \notin Range(DrumKeys)
    THEN UnknownDrum(pattern[i].name)                            \* lines 276-277
    ELSE NotesThen(DrumHere(GM_DRUMS[DrumPitch(pattern[i].name)].pitch,
                            pattern[i].beats, bars, velocity),
                   DrumNotes(pattern, i + 1, bars, velocity))

\* a mutant of create_drum_pattern: drums that are not in the table are skipped
create_drum_pattern_skip_unknown(pattern, bars, tempo_bpm, velocity) ==
    LET f[i \in 0..Len(pattern)] ==
            IF i = 0 THEN <<>>
            ELSE IF pattern[i].name \in Range(DrumKeys)
                 THEN Append(f[i - 1], pattern[i])
                 ELSE f[i - 1]
    IN  WriteNotes(DrumNotes(f[Len(pattern)], 1, bars, velocity), tempo_bpm)

\* create_drum_pattern(output_path, pattern, bars, tempo_bpm, velocity): the
\* file written, or the exception raised before it
create_drum_pattern(pattern, bars, tempo_bpm, velocity) ==
    WriteNotes(DrumNotes(pattern, 1, bars, velocity), tempo_bpm)

(***************************************************************************)
(* Tool layer: src/monk/llm.py                                             *)
(*                                                                         *)
(* A tool works on the state st = [proj, disk, files, ids] and gives the   *)
(* state it leaves and its outcome: a value, or the exception that         *)
(* _execute_tool turns into an error result.                               *)
(***************************************************************************)
ToolResult(tool, made_changes, error) ==
    [tool |-> tool, made_changes |-> made_changes, error |-> error]

NoError == [kind |-> "none", drum |-> "", valid |-> <<>>]
Error(kind) == [kind |-> kind, drum |-> "", valid |-> <<>>]

\* MonkProject.save(), project.py lines 51-54: the project text is rewritten;
\* open(save_path, "w"), rpp.py line 109, raises when the file cannot be
\* written, and leaves it as it was
ProjectSave(st) ==
    IF st.writable THEN [st |-> [st EXCEPT !.disk = save(st.proj)], res |-> Ok(0)]
    ELSE [st |-> st, res |-> Raise("PermissionError")]

\* the state and the track after add_track returned a
TrackAdded(st, a) ==
    [st |-> [st EXCEPT !.proj = a.proj, !.ids = a.ids], track |-> a.track]

\* _get_or_create_track(name), lines 432-437: the first track of that name,
\* or a new one
get_or_create_track(st, name) ==
    IF \E i \in 1..Len(st.proj.tracks) : st.proj.tracks[i].name = name
    THEN [st |-> st,
          track |-> st.proj.tracks[
                      CHOOSE i \in 1..Len(st.proj.tracks) :
                         /\ st.proj.tracks[i].name = name
                         /\ \A j \in 1..(i - 1) : st.proj.tracks[j].name # name]]
    ELSE TrackAdded(st, add_track(st.proj, name, st.ids))

\* self.project.save() after add_midi_item returned a; an exception of
\* add_midi_item ends the tool before it
SaveAfter(st, a) ==
    IF ~a.res.ok THEN [st |-> st, res |-> a.res]
    ELSE ProjectSave([st EXCEPT !.proj = a.proj])

\* add_midi_item(track.index, midi_path) on the track t that
\* _get_or_create_track gave, then the save
PlaceOn(t, midi_path) ==
    SaveAfter(t.st, add_midi_item(t.st.proj, t.track.index, midi_path, 0, None,
                                  t.st.files))

\* the common tail of the three generators, e.g. lines 387-389: the file is
\* on disk; find or create the track, place the item, save
PlaceAndSave(st, track_name, midi_path) ==
    PlaceOn(get_or_create_track(st, track_name), midi_path)

\* the file a generator wrote, or nothing when it raised
WriteFile(st, stem, file) ==
    [st EXCEPT !.files = [s \in DOMAIN st.files \cup {stem} |->
                             IF s = stem THEN file ELSE st.files[s]]]

\* the files after create_midi_file raised: as before, unless mid.save had
\* opened the file
AfterRaise(st, stem, out) ==
    IF TruncatedBySave(out) THEN WriteFile(st, stem, Undecodable) ELSE st

\* the result of _execute_tool for a tool that ran to its end or raised
Executed(tool, out) ==
    [st |-> out.st,
     result |-> IF out.res.ok THEN ToolResult(tool, TRUE, NoError)
                ELSE ToolResult(tool, FALSE, Error(out.res.err))]

\* a generator tool once its generator returned file: an exception ends the
\* tool; else the file is on disk and the item is placed
Generated(tool, st, input, file) ==
    Executed(tool,
        IF ~file.ok THEN [st |-> AfterRaise(st, input.filename, file), res |-> file]
        ELSE PlaceAndSave(WriteFile(st, input.filename, file.val),
                          input.track_name, MidiPath(input.filename)))

\* _create_midi(input_data), lines 304-332
tool_create_midi(st, input) ==
    Generated("create_midi", st, input,
              create_midi_file(input.notes, st.proj.tempo.v, TICKS_PER_BEAT))

\* _create_chord_progression(input_data), lines 334-360
tool_create_chord_progression(st, input) ==
    Generated("create_chord_progression", st, input,
              create_chord_progression(input.chords, input.beats_per_chord,
                                       st.proj.tempo.v, 80, input.octave))

\* the first key of the pattern that is not in the drum table
FirstUnknownDrum(pattern) ==
    pattern[CHOOSE i \in 1..Len(pattern) :
               /\ pattern[i].name \notin Range(DrumKeys)
               /\ \A j \in 1..(i - 1) : pattern[j].name \in Range(DrumKeys)].name

\* _create_drum_pattern(input_data), lines 362-396
tool_create_drum_pattern(st, input) ==
    IF \E i \in 1..Len(input.pattern) :
          input.pattern[i].name \notin Range(DrumKeys)         \* lines 370-377
    THEN [st |-> st,
          result |-> ToolResult("create_drum_pattern", FALSE,
                         [kind |-> "Unknown drum",
                          drum |-> FirstUnknownDrum(input.pattern),
                          valid |-> DrumKeys])]
    ELSE Generated("create_drum_pattern", st, input,
                   create_drum_pattern(input.pattern, input.bars,
                                       st.proj.tempo.v, 100))

\* a mutant of _set_tempo: no range check
tool_set_tempo_unchecked(st, input) ==
    Executed("set_tempo",
             ProjectSave([st EXCEPT !.proj = set_tempo(st.proj, input.bpm)]))

\* _set_tempo(input_data), lines 398-417
tool_set_tempo(st, input) ==
    IF ~(40 <= input.bpm.v /\ input.bpm.v <= 240)
    THEN [st |-> st, result |-> ToolResult("set_tempo", FALSE, Error("Invalid tempo"))]
    ELSE Executed("set_tempo",
                  ProjectSave([st EXCEPT !.proj = set_tempo(st.proj, input.bpm)]))

\* _add_track(input_data), lines 419-430
tool_add_track(st, input) ==
    Executed("add_track",
             ProjectSave(TrackAdded(st, add_track(st.proj, input.name, st.ids)).st))

(***************************************************************************)
(* The state machine. Every action is one call of the program; call holds  *)
(* the operation, its arguments and its outcome.                           *)
(***************************************************************************)
Call(op, arg, res) == [op |-> op, arg |-> arg, res |-> res]

NoFiles == [s \in {} |-> Undecodable]

ProjectPath == "project.rpp"

(***************************************************************************)
(* SpecChord: the pure functions of ChordTheory, on names drawn from       *)
(* bounded sets.                                                           *)
(***************************************************************************)
Letters == {"A", "B", "C", "D", "E", "F", "G",
            "a", "b", "c", "d", "e", "f", "g", "H"}
Accidentals == {<<>>, <<"#">>, <<"b">>}
Octaves == OctaveLow..MaxOctave

\* a name as a caller writes it: letter, accidental, octave
NoteName(letter, acc, octave) == <<letter>> \o acc \o IntToStr(octave)

MalformedNames ==
    { <<>>, <<"C">>, <<"4">>, <<"C", "x">>, <<"C", "#">>, <<"C", "4", "x">>,
      <<"C", "-">>, <<"#", "4">>, <<"C", "#", "#", "4">>,
      <<"C", "4", "b">>, <<"b", "b", "C", "4">> }

PaddedNames == { <<" ", "C", "4">>, <<"D", "#", "3", " ">> }

SuffixInputs == Qualities \cup { <<"x">>, <<"M">>, <<"m", "a", "j", "9">> }

Pending == [ok |-> FALSE, val |-> 0, err |-> "pending"]

Returned(c) == c.res.err # "pending"

NoteNameInputs ==
    { [name |-> NoteName(letter, acc, octave), formed |-> letter # "H",
       letter |-> letter, acc |-> acc, octave |-> octave] :
         letter \in Letters, acc \in Accidentals, octave \in Octaves }
    \cup
    { [name |-> name, formed |-> FALSE, letter |-> "", acc |-> <<>>, octave |-> 0] :
         name \in MalformedNames \cup PaddedNames }

ChordInputs ==
    { [chord_name |-> <<letter>> \o acc \o suffix, letter |-> letter, acc |-> acc,
       suffix |-> suffix, octave |-> octave] :
         letter \in Letters, acc \in Accidentals, suffix \in SuffixInputs,
         octave \in Octaves }

\* no project, no file, and the call that is about to be made
InitChord ==
    /\ proj = NoProject
    /\ disk = NoFile
    /\ files = NoFiles
    /\ idGen = 0
    /\ messages = NoMessages
    /\ chat = NoChat
    /\ \/ \E arg \in NoteNameInputs : call = Call("note_name_to_midi", arg, Pending)
       \/ \E arg \in 0..127 : call = Call("midi_to_note_name", arg, Pending)
       \/ \E arg \in ChordInputs : call = Call("parse_chord", arg, Pending)

NoteNameToMidiCall ==
    /\ call.op = "note_name_to_midi" /\ ~Returned(call)
    /\ call' = [call EXCEPT !.res = note_name_to_midi(call.arg.name)]
    /\ UNCHANGED <<proj, disk, files, idGen, messages, chat>>

MidiToNoteNameCall ==
    /\ call.op = "midi_to_note_name" /\ ~Returned(call)
    /\ call' = [call EXCEPT !.res = Ok(midi_to_note_name(call.arg))]
    /\ UNCHANGED <<proj, disk, files, idGen, messages, chat>>

ParseChordCall ==
    /\ call.op = "parse_chord" /\ ~Returned(call)
    /\ call' = [call EXCEPT !.res = parse_chord(call.arg.chord_name, call.arg.octave)]
    /\ UNCHANGED <<proj, disk, files, idGen, messages, chat>>

NextChord == NoteNameToMidiCall \/ MidiToNoteNameCall \/ ParseChordCall

SpecChord == InitChord /\ [][NextChord]_vars

(***************************************************************************)
(* SpecMidi: create_midi_file on note lists drawn from bounded sets.       *)
(***************************************************************************)
Pitches == {60, 62}
Velocities == {64, 100}
\* the default resolution, in which a beat value k/BeatDen is a whole tick or
\* half a tick, and one (384) in which it falls between ticks elsewhere
Resolutions == {TICKS_PER_BEAT, (4 * TICKS_PER_BEAT) \div 5}

NoteInputs ==
    { Note(p, s, d, v) : p \in Pitches, s \in 0..MaxStart, d \in 1..MaxDur,
                         v \in Velocities }

\* notes of no or negative duration
DegenerateNotes ==
    { Note(60, s, d, 100) : s \in 0..MaxStart, d \in (0 - MaxNegDur)..0 }

\* a degenerate note alone, and before or after a plain note
DegenerateLists ==
    { <<n>> : n \in DegenerateNotes }
    \cup { <<n, Note(60, s, MaxDur, 100)>> : n \in DegenerateNotes, s \in 0..MaxStart }
    \cup { <<Note(60, s, MaxDur, 100), n>> : n \in DegenerateNotes, s \in 0..MaxStart }

NoteLists == UNION { [1..n -> NoteInputs] : n \in 0..MaxNotes } \cup DegenerateLists

InitMidi ==
    /\ proj = NoProject
    /\ disk = NoFile
    /\ files = NoFiles
    /\ idGen = 0
    /\ messages = NoMessages
    /\ chat = NoChat
    /\ \E notes \in NoteLists, ticks_per_beat \in Resolutions :
          call = Call("create_midi_file",
                      [notes |-> notes, ticks_per_beat |-> ticks_per_beat,
                       stem |-> "out"], Pending)

CreateMidiFileCall ==
    /\ call.op = "create_midi_file" /\ ~Returned(call)
    /\ LET r == create_midi_file(call.arg.notes, DEFAULT_TEMPO, call.arg.ticks_per_beat)
       IN  /\ call' = [call EXCEPT !.res = [r EXCEPT !.val = 0]]
           /\ files' = IF r.ok
                       THEN WriteFile([files |-> files], call.arg.stem, r.val).files
                       ELSE AfterRaise([files |-> files], call.arg.stem, r).files
    /\ UNCHANGED <<proj, disk, idGen, messages, chat>>

NextMidi == CreateMidiFileCall

SpecMidi == InitMidi /\ [][NextMidi]_vars

(***************************************************************************)
(* SpecRpp: a fresh project, changed by the operations of the model, saved *)
(* and loaded again.                                                       *)
(***************************************************************************)
TrackNames == { <<"Drums">>, <<"a", Q, "b">> }
TempoInputs == { Int_(128) }
RenderInputs == { <<"out">> }

\* the music directory: one good file, one that is no music file; "gone" is
\* the stem of a file that does not exist
GoodFile == create_midi_file(<<Note(60, 0, Beats(1), 100)>>, DEFAULT_TEMPO,
                             TICKS_PER_BEAT).val
SomeFiles == [s \in {"a", "bad"} |-> IF s = "a" THEN GoodFile ELSE Undecodable]

ItemInputs ==
    { [stem |-> "a", length |-> None], [stem |-> "bad", length |-> None],
      [stem |-> "gone", length |-> None], [stem |-> "gone", length |-> Some(2)] }

RECURSIVE CountItems(_)
CountItems(tracks) ==
    IF tracks = <<>> THEN 0
    ELSE Len(Head(tracks).midi_items) + CountItems(Tail(tracks))

HasProject == proj.path # "none"

InitRpp ==
    /\ proj = NewProject(ProjectPath)
    /\ disk = NoFile
    /\ files = SomeFiles
    /\ idGen = 0
    /\ messages = NoMessages
    /\ chat = NoChat
    /\ call = Call("init", <<>>, Ok(0))

\* the scenario of SpecRpp: the project is changed in memory, then written,
\* then read back
Unsaved == ~disk.exists

SetTempoCall ==
    /\ HasProject /\ Unsaved
    /\ \E bpm \in TempoInputs :
          /\ proj' = set_tempo(proj, bpm)
          /\ call' = Call("set_tempo", bpm, Ok(0))
    /\ UNCHANGED <<disk, files, idGen, messages, chat>>

SetRenderFileCall ==
    /\ HasProject /\ Unsaved
    /\ \E filename \in RenderInputs :
          /\ proj' = set_render_file(proj, filename)
          /\ call' = Call("set_render_file", filename, Ok(0))
    /\ UNCHANGED <<disk, files, idGen, messages, chat>>

\* a call of add_track with a name of names
AddTrack(names) ==
    /\ HasProject
    /\ Len(proj.tracks) < MaxTracks
    /\ \E name \in names :
          LET a == add_track(proj, name, idGen)
          IN  /\ proj' = a.proj
              /\ idGen' = a.ids
              /\ call' = Call("add_track", name, Ok(a.track))
    /\ UNCHANGED <<disk, files, messages, chat>>

\* a call of add_midi_item with a track index of indices and a file and
\* length of inputs, at position 0
AddMidiItem(indices, inputs) ==
    /\ HasProject
    /\ CountItems(proj.tracks) < MaxItems
    /\ \E track_index \in indices, inp \in inputs :
          LET a == add_midi_item(proj, track_index, MidiPath(inp.stem), 0,
                                 inp.length, files)
          IN  /\ proj' = a.proj
              /\ call' = Call("add_midi_item",
                              [track_index |-> track_index, stem |-> inp.stem,
                               length |-> inp.length],
                              [a.res EXCEPT !.val = 0])
    /\ UNCHANGED <<disk, files, idGen, messages, chat>>

AddTrackCall == Unsaved /\ AddTrack(TrackNames)

AddMidiItemCall ==
    Unsaved /\ AddMidiItem(-1..(Len(proj.tracks) + 1), ItemInputs)

SaveCall ==
    /\ HasProject /\ Unsaved
    /\ disk' = save(proj)
    /\ call' = Call("save", <<>>, Ok(0))
    /\ UNCHANGED <<proj, files, idGen, messages, chat>>

\* ReaperProject.load(path), lines 95-98 and 42-43, on a file that exists
LoadCall ==
    /\ disk.exists
    /\ LET r == Load(ProjectPath, disk.lines, idGen)
       IN  /\ proj' = r.proj
           /\ idGen' = r.ids
           /\ call' = Call("load", <<>>, r.res)
    /\ UNCHANGED <<disk, files, messages, chat>>

NextRpp ==
    \/ SetTempoCall
    \/ SetRenderFileCall
    \/ AddTrackCall
    \/ AddMidiItemCall
    \/ SaveCall
    \/ LoadCall

SpecRpp == InitRpp /\ [][NextRpp]_vars

(***************************************************************************)
(* SpecParse: a project text written by hand, line by line, is loaded; the *)
(* project is then changed by add_track and add_midi_item.                 *)
(***************************************************************************)
LineInputs ==
    { L("<TRACK", <<>>),
      L("NAME", <<Qd(<<"Drums">>)>>),
      L(">", <<>>),
      L("TEMPO", <<Fl(128), N(4), N(4)>>),
      L("TEMPO", <<W("abc")>>),
      L("SAMPLERATE", <<Fl(48000)>>),
      L("RENDER_FILE", <<Qd(<<"out">>)>>),
      L("RENDER_FILE", <<W("out")>>),
      L("<TRACK", <<Br(<<"g1">>)>>),
      L("MARKER", <<N(1)>>),
      L("RIPPLE", <<N(0)>>) }

InitParse ==
    /\ proj = NoProject
    /\ disk = TextFile(<<>>)
    /\ files = SomeFiles
    /\ idGen = 0
    /\ messages = NoMessages
    /\ chat = NoChat
    /\ call = Call("init", <<>>, Ok(0))

\* the text has not been loaded yet
Editing == call.op \in {"init", "edit"}

\* an editor appends a line to the text, before it is loaded
EditAppendLine ==
    /\ Editing
    /\ Len(disk.lines) < MaxLines
    /\ \E line \in LineInputs :
          /\ disk' = TextFile(Append(disk.lines, line))
          /\ call' = Call("edit", <<>>, Ok(0))
    /\ UNCHANGED <<proj, files, idGen, messages, chat>>

\* an editor pastes a copy of the text written so far behind it
EditPasteCopy ==
    /\ Editing
    /\ disk.lines # <<>>
    /\ Len(disk.lines) < MaxLines
    /\ disk' = TextFile(disk.lines \o disk.lines)
    /\ call' = Call("edit", <<>>, Ok(0))
    /\ UNCHANGED <<proj, files, idGen, messages, chat>>

ParseCall == Editing /\ LoadCall

\* the text has been loaded and the project is not yet written back
Parsed == ~Editing /\ call.op # "save"

\* the scenario of SpecParse: the text is loaded, then a track may be added,
\* then an item may be placed, then the project is written back
ParsedAddTrack ==
    /\ call.op = "load"
    /\ AddTrack({ <<"Bass">> })

\* an item of a given length is put on the first or the last track
ParsedAddMidiItem ==
    /\ call.op \in {"load", "add_track"}
    /\ AddMidiItem({0, -1}, { [stem |-> "gone", length |-> Some(2)] })

\* the loaded project is written back over the text
ParsedSave ==
    /\ Parsed
    /\ HasProject
    /\ disk' = save(proj)
    /\ call' = Call("save", <<>>, Ok(0))
    /\ UNCHANGED <<proj, files, idGen, messages, chat>>

NextParse ==
    \/ EditAppendLine
    \/ EditPasteCopy
    \/ ParseCall
    \/ ParsedAddTrack
    \/ ParsedAddMidiItem
    \/ ParsedSave

SpecParse == InitParse /\ [][NextParse]_vars

(***************************************************************************)
(* SpecNested: a project text with a track block that holds an item        *)
(* sub-block is written by hand, line by line, and loaded.                 *)
(***************************************************************************)
NestedLines ==
    { L("<TRACK", <<>>),
      L("NAME", <<Qd(<<"Drums">>)>>),
      L("<ITEM", <<>>),
      L("NAME", <<Qd(<<"riff">>)>>),
      L(">", <<>>) }

\* an editor appends a line of a track or item block to the text
EditAppendNested ==
    /\ Editing
    /\ Len(disk.lines) < MaxNested
    /\ \E line \in NestedLines :
          /\ disk' = TextFile(Append(disk.lines, line))
          /\ call' = Call("edit", <<>>, Ok(0))
    /\ UNCHANGED <<proj, files, idGen, messages, chat>>

NextNested ==
    \/ EditAppendNested
    \/ ParseCall

SpecNested == InitParse /\ [][NextNested]_vars

(***************************************************************************)
(* SpecTool: the tools of the chat layer on a fresh project, and the       *)
(* pattern generators called on their own. Every music file goes to one    *)
(* path.                                                                   *)
(***************************************************************************)
OutStem == "out"

ToolTrackNames == { <<"Drums">> }

\* one good chord; an unknown quality; a letter that is no note; no name
ChordNames == { <<"A", "m">>, <<"C", "x", "y", "z">>, <<"H", "m">>, <<>> }

GoodChord == <<"A", "m">>

\* a single chord and progressions of MaxChords chords: the good chords, and
\* the same with the last chord replaced by any other name
ChordLists ==
    { chords \in UNION { [1..n -> ChordNames] : n \in {1, MaxChords} } :
        \A i \in 1..(Len(chords) - 1) : chords[i] = GoodChord }

\* a drum of the table and one that is not in it
DrumNames == {"kick", "cowbell"}

\* a pattern dict: its items in order, the keys distinct
DrumPatterns ==
    { p \in UNION { [1..n -> [name : DrumNames, beats : {<<0, Beats(2)>>}]] :
                      n \in 1..MaxDrums } :
        \A i, j \in 1..Len(p) : i # j => p[i].name # p[j].name }

\* the notes of a create_midi request: one good list, one with a pitch that
\* no message can carry
MidiRequests ==
    { << [pitch |-> 60, start_beat |-> 0, duration_beats |-> Beats(1),
          velocity |-> 100] >>,
      << [pitch |-> 128, start_beat |-> 0, duration_beats |-> Beats(1),
          velocity |-> 100] >> }

\* the upper end of the range, and the values next to the range outside it
ToolTempos == { Int_(39), Int_(240), Int_(241) }

InitTool ==
    /\ proj = NewProject(ProjectPath)
    /\ disk = NoFile
    /\ files = NoFiles
    /\ idGen = 0
    /\ messages = NoMessages
    /\ chat = NoChat
    /\ call = Call("init", <<>>, Ok(0))

\* the state a tool works on; the project file can be written
ToolState ==
    [proj |-> proj, disk |-> disk, files |-> files, ids |-> idGen,
     writable |-> TRUE]

\* _execute_tool(name, input): the state the tool leaves and its result; the
\* calls that would take the project past the bounds are left out
ExecuteTool(name, input, out) ==
    /\ Len(out.st.proj.tracks) <= MaxTracks
    /\ CountItems(out.st.proj.tracks) <= MaxPlaced
    /\ proj' = out.st.proj
    /\ disk' = out.st.disk
    /\ files' = out.st.files
    /\ idGen' = out.st.ids
    /\ call' = Call(name, input,
                    [ok |-> out.result.made_changes, val |-> out.result,
                     err |-> out.result.error.kind])
    /\ UNCHANGED <<messages, chat>>

ToolCreateMidi ==
    /\ HasProject
    /\ \E notes \in MidiRequests, track_name \in ToolTrackNames :
          LET input == [filename |-> OutStem, track_name |-> track_name,
                        notes |-> notes]
          IN  ExecuteTool("tool_create_midi", input,
                          tool_create_midi(ToolState, input))

ToolCreateChordProgression ==
    /\ HasProject
    /\ \E chords \in ChordLists, track_name \in ToolTrackNames :
          LET input == [filename |-> OutStem, track_name |-> track_name,
                        chords |-> chords, beats_per_chord |-> Beats(4),
                        octave |-> 4]
          IN  ExecuteTool("tool_create_chord_progression", input,
                          tool_create_chord_progression(ToolState, input))

ToolCreateDrumPattern ==
    /\ HasProject
    /\ \E pattern \in DrumPatterns, track_name \in ToolTrackNames :
          LET input == [filename |-> OutStem, track_name |-> track_name,
                        pattern |-> pattern, bars |-> 1]
          IN  ExecuteTool("tool_create_drum_pattern", input,
                          tool_create_drum_pattern(ToolState, input))

ToolSetTempo ==
    /\ HasProject
    /\ \E bpm \in ToolTempos :
          LET input == [bpm |-> bpm]
          IN  ExecuteTool("tool_set_tempo", input, tool_set_tempo(ToolState, input))

ToolAddTrack ==
    /\ HasProject
    /\ \E name \in ToolTrackNames :
          LET input == [name |-> name]
          IN  ExecuteTool("tool_add_track", input, tool_add_track(ToolState, input))

\* the files after a generator of midi.py was called on its own: the file is
\* written unless the call raised
GeneratorFiles(out) ==
    IF out.ok THEN WriteFile(ToolState, OutStem, out.val).files
    ELSE AfterRaise(ToolState, OutStem, out).files

\* what the generator returned: None, or the error it raised
GeneratorResult(out) ==
    IF out.ok THEN Ok(0) ELSE [ok |-> FALSE, val |-> out.val, err |-> out.err]

\* four beats a chord, the default
ChordBeats == { Beats(4) }

CreateChordProgressionCall ==
    \E chords \in ChordLists, beats_per_chord \in ChordBeats :
       LET out == create_chord_progression(chords, beats_per_chord,
                                           DEFAULT_TEMPO, 80, 4)
       IN  /\ files' = GeneratorFiles(out)
           /\ call' = Call("create_chord_progression",
                           [chords |-> chords, beats_per_chord |-> beats_per_chord,
                            octave |-> 4],
                           GeneratorResult(out))
           /\ UNCHANGED <<proj, disk, idGen, messages, chat>>

CreateDrumPatternCall ==
    \E pattern \in DrumPatterns :
       LET out == create_drum_pattern(pattern, 1, DEFAULT_TEMPO, 100)
       IN  /\ files' = GeneratorFiles(out)
           /\ call' = Call("create_drum_pattern", [pattern |-> pattern],
                           GeneratorResult(out))
           /\ UNCHANGED <<proj, disk, idGen, messages, chat>>

NextTool ==
    \/ ToolCreateMidi
    \/ ToolCreateChordProgression
    \/ ToolCreateDrumPattern
    \/ ToolSetTempo
    \/ ToolAddTrack
    \/ CreateChordProgressionCall
    \/ CreateDrumPatternCall

SpecTool == InitTool /\ [][NextTool]_vars

(***************************************************************************)
(* SpecReadOnly: the tools of the chat layer on a project whose file       *)
(* cannot be written, so that every save raises.                           *)
(***************************************************************************)
ReadOnlyState == [ToolState EXCEPT !.writable = FALSE]

ReadOnlyCreateMidi ==
    /\ HasProject
    /\ \E notes \in MidiRequests, track_name \in ToolTrackNames :
          LET input == [filename |-> OutStem, track_name |-> track_name,
                        notes |-> notes]
          IN  ExecuteTool("tool_create_midi", input,
                          tool_create_midi(ReadOnlyState, input))

ReadOnlyCreateChordProgression ==
    /\ HasProject
    /\ \E chords \in ChordLists, track_name \in ToolTrackNames :
          LET input == [filename |-> OutStem, track_name |-> track_name,
                        chords |-> chords, beats_per_chord |-> Beats(4),
                        octave |-> 4]
          IN  ExecuteTool("tool_create_chord_progression", input,
                          tool_create_chord_progression(ReadOnlyState, input))

ReadOnlyCreateDrumPattern ==
    /\ HasProject
    /\ \E pattern \in DrumPatterns, track_name \in ToolTrackNames :
          LET input == [filename |-> OutStem, track_name |-> track_name,
                        pattern |-> pattern, bars |-> 1]
          IN  ExecuteTool("tool_create_drum_pattern", input,
                          tool_create_drum_pattern(ReadOnlyState, input))

ReadOnlySetTempo ==
    /\ HasProject
    /\ \E bpm \in ToolTempos :
          LET input == [bpm |-> bpm]
          IN  ExecuteTool("tool_set_tempo", input,
                          tool_set_tempo(ReadOnlyState, input))

ReadOnlyAddTrack ==
    /\ HasProject
    /\ \E name \in ToolTrackNames :
          LET input == [name |-> name]
          IN  ExecuteTool("tool_add_track", input,
                          tool_add_track(ReadOnlyState, input))

NextReadOnly ==
    \/ ReadOnlyCreateMidi
    \/ ReadOnlyCreateChordProgression
    \/ ReadOnlyCreateDrumPattern
    \/ ReadOnlySetTempo
    \/ ReadOnlyAddTrack

SpecReadOnly == InitTool /\ [][NextReadOnly]_vars

(***************************************************************************)
(* SpecChat: MusicLLM.chat, the tool-use loop. One step is one pass of     *)
(* the loop: a request to the model and what the code does with the        *)
(* answer. The model's answers are the environment: it may raise, answer   *)
(* with text only, or answer with tool_use blocks.                         *)
(***************************************************************************)
max_iterations == 10

\* a message of the history: its role, the tool_use blocks and the
\* tool_result blocks of its content
Message(role, uses, results) == [role |-> role, uses |-> uses, results |-> results]

\* a tool_use block of an answer
ToolUse(id, name, input) == [id |-> id, name |-> name, input |-> input]

\* the tools an answer asks for: one that succeeds, one that returns an
\* error, and a name _execute_tool does not know
ChatTools ==
    { [name |-> "set_tempo", input |-> [bpm |-> Int_(240)]],
      [name |-> "set_tempo", input |-> [bpm |-> Int_(241)]],
      [name |-> "mix", input |-> [bpm |-> Int_(240)]] }

RepeatedTool == [name |-> "set_tempo", input |-> [bpm |-> Int_(240)]]

\* the tool_use blocks of the answer to a request: the first answer of a
\* chat call asks for one or two tools of ChatTools, the later ones repeat
\* one request
ChatAnswers(iteration) ==
    IF iteration = 1
    THEN { <<t>> : t \in ChatTools } \cup { <<RepeatedTool, t>> : t \in ChatTools }
    ELSE { <<RepeatedTool>> }

\* _execute_tool(name, input_data), lines 276-302
execute_tool(st, name, input) ==
    CASE name = "create_midi" -> tool_create_midi(st, input)
      [] name = "create_chord_progression" -> tool_create_chord_progression(st, input)
      [] name = "create_drum_pattern" -> tool_create_drum_pattern(st, input)
      [] name = "set_tempo" -> tool_set_tempo(st, input)
      [] name = "add_track" -> tool_add_track(st, input)
      [] OTHER -> [st |-> st, result |-> ToolResult(name, FALSE, Error("Unknown tool"))]

\* the loop over tool_uses, lines 260-271: the tools run in order, each one
\* leaves a tool_result block with the id of its tool_use block
RECURSIVE ExecuteAll(_, _, _)
ExecuteAll(st, uses, i) ==
    IF i > Len(uses) THEN [st |-> st, results |-> <<>>]
    ELSE LET out == execute_tool(st, uses[i].name, uses[i].input)
             rest == ExecuteAll(out.st, uses, i + 1)
         IN  [st |-> rest.st,
              results |-> <<[tool_use_id |-> uses[i].id,
                             is_error |-> out.result.error # NoError]>>
                          \o rest.results]

\* the state of chat after a request: the loop goes on while
\* iteration < max_iterations, line 229
AfterRequest(pc) ==
    [chat EXCEPT !.iteration = @ + 1, !.requests = @ + 1,
                 !.pc = IF pc = "loop" /\ chat.iteration + 1 >= max_iterations
                        THEN "idle" ELSE pc]

\* chat(user_message) up to the loop, lines 221-227
ChatCall ==
    /\ chat.pc = "idle" /\ chat.calls < MaxChats
    /\ messages' = Append(messages, Message("user", <<>>, <<>>))
    /\ chat' = [chat EXCEPT !.pc = "loop", !.iteration = 0, !.requests = 0,
                            !.calls = @ + 1]
    /\ call' = Call("chat", <<>>, Pending)
    /\ UNCHANGED <<proj, disk, files, idGen>>

\* lines 229-239: the request raises, and chat ends with the exception
ChatRequestRaises ==
    /\ chat.pc = "loop"
    /\ chat' = AfterRequest("idle")
    /\ call' = Call("chat", <<>>, Raise("APIError"))
    /\ UNCHANGED <<proj, disk, files, idGen, messages>>

\* lines 229-257: an answer without tool_use blocks ends the loop
ChatFinalResponse ==
    /\ chat.pc = "loop"
    /\ messages' = Append(messages, Message("assistant", <<>>, <<>>))
    /\ chat' = AfterRequest("idle")
    /\ call' = Call("chat", <<>>, Ok(0))
    /\ UNCHANGED <<proj, disk, files, idGen>>

\* lines 229-274: an answer with tool_use blocks; the tools run and their
\* results are appended as a user message
ChatToolResponse ==
    /\ chat.pc = "loop"
    /\ \E tools \in ChatAnswers(chat.iteration + 1) :
          LET uses == [i \in 1..Len(tools) |->
                          ToolUse(chat.uses + i, tools[i].name, tools[i].input)]
              out == ExecuteAll(ToolState, uses, 1)
          IN  /\ messages' = messages \o <<Message("assistant", uses, <<>>),
                                           Message("user", <<>>, out.results)>>
              /\ chat' = [AfterRequest("loop") EXCEPT !.uses = @ + Len(tools)]
              /\ proj' = out.st.proj
              /\ disk' = out.st.disk
              /\ files' = out.st.files
              /\ idGen' = out.st.ids
              /\ call' = Call("chat", <<>>,
                              IF chat'.pc = "idle" THEN Ok(0) ELSE Pending)

NextChat ==
    \/ ChatCall
    \/ ChatRequestRaises
    \/ ChatFinalResponse
    \/ ChatToolResponse

SpecChat == InitTool /\ [][NextChat]_vars

(***************************************************************************)
(* Claims about ChordTheory, checked under SpecChord.                      *)
(***************************************************************************)
\* the pitch class of a natural letter in the 12-entry table
NaturalClass(letter) ==
    CASE UpperChar(letter) = "C" -> 0 [] UpperChar(letter) = "D" -> 2
      [] UpperChar(letter) = "E" -> 4 [] UpperChar(letter) = "F" -> 5
      [] UpperChar(letter) = "G" -> 7 [] UpperChar(letter) = "A" -> 9
      [] UpperChar(letter) = "B" -> 11

\* (octave+1)*12 + pc, pc raised by one for a sharp and lowered by one for a flat
ExpectedPitch(letter, acc, octave) ==
    LET shift == IF acc = <<"#">> THEN 1 ELSE IF acc = <<"b">> THEN -1 ELSE 0
    IN  (octave + 1) * 12 + ((NaturalClass(letter) + shift) % 12)


\* C9: for every name Letter[#|b]Octave, letter A..G in either case, whose
\* pitch (octave+1)*12 + pc lies in 0..127, note_name_to_midi returns that
\* pitch: a sharp raises the pitch class by one, a flat lowers it by one
C9_NoteNameToMidiPitch ==
    (/\ call.op = "note_name_to_midi"
     /\ Returned(call)
     /\ call.arg.formed
     /\ ExpectedPitch(call.arg.letter, call.arg.acc, call.arg.octave) \in 0..127)
    => /\ call.res.ok
       /\ call.res.val = ExpectedPitch(call.arg.letter, call.arg.acc, call.arg.octave)

\* C10: for every root, octave and quality of the interval table, parse_chord
\* returns the root's pitch plus each offset of the quality, in table order,
\* and for a suffix that is not in the table it fails with an unknown-quality
\* error
C10_ParseChordPitches ==
    (/\ call.op = "parse_chord"
     /\ Returned(call)
     /\ call.arg.letter # "H")
    => LET root == ExpectedPitch(call.arg.letter, call.arg.acc, call.arg.octave)
       IN  IF call.arg.suffix \in Qualities
           THEN root \in 0..127 =>
                  /\ call.res.ok
                  /\ call.res.val =
                        [i \in 1..Len(IntervalsOf(call.arg.suffix)) |->
                            root + IntervalsOf(call.arg.suffix)[i]]
           ELSE ~call.res.ok /\ call.res.err = "ValueError"

\* a name of the form Letter[#|b]Octave: a letter A..G in either case, an
\* optional accidental, and an octave part that is an integer
WellFormedName(name0) ==
    LET name == Strip(name0)
    IN  /\ name # <<>>
        /\ name[1] \in {"A", "B", "C", "D", "E", "F", "G",
                        "a", "b", "c", "d", "e", "f", "g"}
        /\ LET accidental == Len(name) >= 2 /\ name[2] \in {"#", "b"}
           IN  ParseInt(From(name, IF accidental THEN 2 ELSE 1)).ok

\* C11: note_name_to_midi returns an integer in 0..127 or fails: it fails for
\* every name whose letter is not A..G or whose octave part is not an
\* integer, it fails for every well-formed name whose pitch is outside
\* 0..127, and it never returns a value outside 0..127
C11_NoteNameToMidiFailsOrInRange ==
    (call.op = "note_name_to_midi" /\ Returned(call))
    => /\ call.res.ok => call.res.val \in 0..127
       /\ ~WellFormedName(call.arg.name) => ~call.res.ok
       /\ (/\ call.arg.formed
           /\ ExpectedPitch(call.arg.letter, call.arg.acc, call.arg.octave)
                 \notin 0..127)
          => ~call.res.ok

\* C12: for every pitch p in 0..127 the name midi_to_note_name(p) is read back
\* by note_name_to_midi as p, and the name holds no flat sign
C12_NameOfPitchReadsBack ==
    (call.op = "midi_to_note_name" /\ Returned(call))
    => /\ note_name_to_midi(call.res.val) = Ok(call.arg)
       /\ "b" \notin Range(call.res.val)

\* C12's case: the name of pitch 1, a sharp in octave -1, has been returned
C12_Witness ==
    /\ call.op = "midi_to_note_name"
    /\ Returned(call)
    /\ call.arg = 1
    /\ call.res.val = <<"C", "#", "-", "1">>

(***************************************************************************)
(* Claims about the NoteEventEncoder, checked under SpecMidi.              *)
(***************************************************************************)
\* the track create_midi_file wrote
Written == files[call.arg.stem].track

Encoded == call.op = "create_midi_file" /\ Returned(call) /\ call.res.ok

RECURSIVE AbsTick(_, _)
\* the absolute tick of message i: the delta times up to it, added up
AbsTick(tr, i) == IF i = 0 THEN 0 ELSE AbsTick(tr, i - 1) + tr[i].time

\* a beat value k/BeatDen in ticks, as int() cuts it
TickOf(k, ticks_per_beat) == IntTrunc(k * ticks_per_beat, BeatDen)

StartTick(n) == TickOf(n.start_beat, call.arg.ticks_per_beat)
EndTick(n) == StartTick(n) + TickOf(n.duration_beats, call.arg.ticks_per_beat)

\* every note of the list lasts longer than nothing
PositiveDurations(notes) == \A a \in 1..Len(notes) : notes[a].duration_beats > 0

\* C1: among the events of one absolute tick every note-off precedes every
\* note-on; so for two notes of one pitch, one ending at the tick where the
\* other starts, the off of the first comes strictly before the on of the second
C1_OffBeforeOnAtEqualTick ==
    Encoded =>
      LET tr == Written
          notes == call.arg.notes
      IN  /\ \A i, j \in 1..Len(tr) :
                (/\ i < j
                 /\ AbsTick(tr, i) = AbsTick(tr, j)
                 /\ tr[i].type = "note_on")
                => tr[j].type # "note_off"
          /\ \A a, b \in 1..Len(notes) :
                (/\ a # b
                 /\ notes[a].pitch = notes[b].pitch
                 /\ EndTick(notes[a]) = StartTick(notes[b]))
                => \E i, j \in 1..Len(tr) :
                      /\ i < j
                      /\ tr[i].type = "note_off" /\ tr[i].note = notes[a].pitch
                      /\ AbsTick(tr, i) = EndTick(notes[a])
                      /\ tr[j].type = "note_on" /\ tr[j].note = notes[b].pitch
                      /\ AbsTick(tr, j) = StartTick(notes[b])

\* C1's case: two notes of one pitch, each at least a tick long, the second
\* starting at the tick where the first ends, have been encoded
C1_Witness ==
    /\ Encoded
    /\ \E a, b \in 1..Len(call.arg.notes) :
          /\ a # b
          /\ call.arg.notes[a].pitch = call.arg.notes[b].pitch
          /\ StartTick(call.arg.notes[a]) < EndTick(call.arg.notes[a])
          /\ EndTick(call.arg.notes[a]) = StartTick(call.arg.notes[b])
          /\ StartTick(call.arg.notes[b]) < EndTick(call.arg.notes[b])

RECURSIVE DecodeFrom(_, _, _)
\* the decoder of the round trip: each note-on from message i on is paired
\* with the next note-off of its pitch that follows it and is not yet paired
DecodeFrom(tr, i, used) ==
    IF i > Len(tr) THEN <<>>
    ELSE IF tr[i].type # "note_on" THEN DecodeFrom(tr, i + 1, used)
    ELSE
    LET offs == {j \in (i + 1)..Len(tr) :
                    tr[j].type = "note_off" /\ tr[j].note = tr[i].note /\ j \notin used}
    IN  IF offs = {} THEN DecodeFrom(tr, i + 1, used)
        ELSE LET j == CHOOSE k \in offs : \A m \in offs : k <= m
             IN  << [pitch |-> tr[i].note, start |-> AbsTick(tr, i),
                     dur |-> AbsTick(tr, j) - AbsTick(tr, i),
                     velocity |-> tr[i].velocity] >>
                 \o DecodeFrom(tr, i + 1, used \cup {j})

Decode(tr) == DecodeFrom(tr, 1, {})

Bijections(n) == {f \in [1..n -> 1..n] : \A a, b \in 1..n : a # b => f[a] # f[b]}

\* x ticks is within one tick of the beat value k/BeatDen
WithinOneTick(x, k, ticks_per_beat) ==
    /\ x * BeatDen - k * ticks_per_beat <= BeatDen
    /\ k * ticks_per_beat - x * BeatDen <= BeatDen

\* C2 as stated: for every note list, decoding the encoded stream recovers
\* the multiset of (pitch, start tick, duration tick, velocity) of the input,
\* within one tick
C2_RoundTripEveryList ==
    (Encoded /\ PositiveDurations(call.arg.notes)) =>
      LET notes == call.arg.notes
          got == Decode(Written)
      IN  /\ Len(got) = Len(notes)
          /\ \E f \in Bijections(Len(notes)) : \A a \in 1..Len(notes) :
                /\ got[f[a]].pitch = notes[a].pitch
                /\ got[f[a]].velocity = notes[a].velocity
                /\ WithinOneTick(got[f[a]].start, notes[a].start_beat,
                                 call.arg.ticks_per_beat)
                /\ WithinOneTick(got[f[a]].dur, notes[a].duration_beats,
                                 call.arg.ticks_per_beat)

\* every note lasts a tick or more, and no two notes of one pitch overlap in
\* ticks (one may start at the tick where the other ends)
Separate(notes) ==
    /\ \A a \in 1..Len(notes) : StartTick(notes[a]) < EndTick(notes[a])
    /\ \A a, b \in 1..Len(notes) :
          (a # b /\ notes[a].pitch = notes[b].pitch)
          => \/ EndTick(notes[a]) <= StartTick(notes[b])
             \/ EndTick(notes[b]) <= StartTick(notes[a])

\* C2, amended: for every note list whose notes last a tick or more and do
\* not overlap in ticks within one pitch, decoding the encoded stream
\* recovers exactly the multiset of (pitch, start tick, duration tick,
\* velocity), the ticks being the beat values rounded down, so within one tick
C2_RoundTripSeparateNotes ==
    (Encoded /\ Separate(call.arg.notes)) =>
      LET notes == call.arg.notes
          got == Decode(Written)
      IN  /\ Len(got) = Len(notes)
          /\ \E f \in Bijections(Len(notes)) : \A a \in 1..Len(notes) :
                /\ got[f[a]].pitch = notes[a].pitch
                /\ got[f[a]].velocity = notes[a].velocity
                /\ got[f[a]].start = StartTick(notes[a])
                /\ got[f[a]].dur = EndTick(notes[a]) - StartTick(notes[a])
                /\ WithinOneTick(got[f[a]].start, notes[a].start_beat,
                                 call.arg.ticks_per_beat)
                /\ WithinOneTick(got[f[a]].dur, notes[a].duration_beats,
                                 call.arg.ticks_per_beat)

\* C2's case: two separate notes of one pitch, one of them not on a tick
\* boundary, have been encoded
C2_Witness ==
    /\ Encoded
    /\ Separate(call.arg.notes)
    /\ Len(call.arg.notes) = 2
    /\ call.arg.notes[1].pitch = call.arg.notes[2].pitch
    /\ \E a \in 1..2 :
          StartTick(call.arg.notes[a]) * BeatDen
            # call.arg.notes[a].start_beat * call.arg.ticks_per_beat

\* x is an integer nearest to the beat value k/BeatDen in ticks (at a tie,
\* either neighbour)
NearestTick(x, k, ticks_per_beat) ==
    /\ 2 * (x * BeatDen - k * ticks_per_beat) <= BeatDen
    /\ 2 * (k * ticks_per_beat - x * BeatDen) <= BeatDen

\* C13: for every note the note-on is at the absolute tick nearest to
\* start_beat * ticks_per_beat and the note-off at that tick plus the tick
\* count nearest to duration_beats * ticks_per_beat: the conversion rounds to
\* the nearest tick, it does not truncate
C13_TicksRoundToNearest ==
    (Encoded /\ PositiveDurations(call.arg.notes)) =>
      LET tr == Written
          notes == call.arg.notes
      IN  \A a \in 1..Len(notes) :
             \E i, j \in 1..Len(tr) :
                /\ tr[i].type = "note_on" /\ tr[i].note = notes[a].pitch
                /\ tr[j].type = "note_off" /\ tr[j].note = notes[a].pitch
                /\ NearestTick(AbsTick(tr, i), notes[a].start_beat,
                               call.arg.ticks_per_beat)
                /\ NearestTick(AbsTick(tr, j) - AbsTick(tr, i),
                               notes[a].duration_beats, call.arg.ticks_per_beat)

\* the note events a note list stands for, each with the absolute tick the
\* encoder gives it
NoteEventsAt(notes) ==
    [k \in 1..(2 * Len(notes)) |->
        LET n == notes[(k + 1) \div 2]
        IN  IF k % 2 = 1
            THEN [type |-> "note_on", note |-> n.pitch, velocity |-> n.velocity,
                  tick |-> StartTick(n)]
            ELSE [type |-> "note_off", note |-> n.pitch, velocity |-> 0,
                  tick |-> EndTick(n)]]

\* the note events of a written track, each with the absolute tick its delta
\* times add up to
WrittenEventsAt(tr) ==
    [k \in 1..(Len(tr) - 2) |->
        [type |-> tr[k + 1].type, note |-> tr[k + 1].note,
         velocity |-> tr[k + 1].velocity, tick |-> AbsTick(tr, k + 1)]]

\* two sequences hold the same elements, each as often
SameBag(s, t) ==
    /\ Len(s) = Len(t)
    /\ \A e \in Range(s) \cup Range(t) :
          Cardinality({i \in 1..Len(s) : s[i] = e})
            = Cardinality({i \in 1..Len(t) : t[i] = e})

\* C14: for n notes with duration > 0 the written track is one tempo event
\* with delta 0, then the 2n note events in non-decreasing tick order, every
\* delta non-negative and the deltas adding up to each event's absolute tick,
\* then one end-of-track marker; for n = 0 the tempo event and the marker only
C14_TrackLayout ==
    (Encoded /\ PositiveDurations(call.arg.notes)) =>
      LET tr == Written
          n == Len(call.arg.notes)
      IN  /\ Len(tr) = 2 * n + 2
          /\ tr[1] = Msg("set_tempo", 0, 0, 0, bpm2tempo(DEFAULT_TEMPO))
          /\ tr[Len(tr)] = Msg("end_of_track", 0, 0, 0, 0)
          /\ \A i \in 2..(Len(tr) - 1) :
                /\ tr[i].type \in {"note_on", "note_off"}
                /\ tr[i].time >= 0
          /\ SameBag(WrittenEventsAt(tr), NoteEventsAt(call.arg.notes))

\* C14's case: two notes have been encoded whose first event is after tick 0
\* and whose last event is after the one before it
C14_Witness ==
    /\ Encoded
    /\ PositiveDurations(call.arg.notes)
    /\ Len(call.arg.notes) = 2
    /\ Written[2].time > 0
    /\ Written[5].time > 0

\* C23: for every note of positive duration, durations shorter than a tick
\* included, the note's own note-on comes strictly before its own note-off
\* in the written track
C23_OwnOnBeforeOwnOff ==
    Encoded =>
      LET tr == Written
          notes == call.arg.notes
      IN  \A a \in 1..Len(notes) :
             notes[a].duration_beats > 0
             => \E i, j \in 1..Len(tr) :
                   /\ i < j
                   /\ tr[i].type = "note_on"
                   /\ tr[i].note = notes[a].pitch
                   /\ tr[i].velocity = notes[a].velocity
                   /\ AbsTick(tr, i) = StartTick(notes[a])
                   /\ tr[j].type = "note_off"
                   /\ tr[j].note = notes[a].pitch
                   /\ AbsTick(tr, j) = EndTick(notes[a])

\* C15: encoding a note of zero or negative duration fails, and no file is
\* written that holds the events of such a note
C15_DegenerateNotesRejected ==
    (/\ call.op = "create_midi_file"
     /\ Returned(call)
     /\ ~PositiveDurations(call.arg.notes))
    => /\ ~call.res.ok
       /\ call.arg.stem \in DOMAIN files => files[call.arg.stem].track = <<>>

(***************************************************************************)
(* Claims about the ProjectModel and the ProjectCodec, checked under       *)
(* SpecRpp and SpecParse.                                                  *)
(***************************************************************************)
\* two models agree on tempo, on track names in order and on item counts
SameModel(p, q) ==
    /\ p.tempo.v = q.tempo.v
    /\ Len(p.tracks) = Len(q.tracks)
    /\ \A i \in 1..Len(p.tracks) :
          i <= Len(q.tracks) =>
            /\ p.tracks[i].name = q.tracks[i].name
            /\ Len(p.tracks[i].midi_items) = Len(q.tracks[i].midi_items)

\* C3: loading the text that save wrote for a model yields a model with the
\* same tempo, the same track names in the same order and the same number
\* of items on each track
C3_SaveThenLoad ==
    [][(call.op = "save" /\ call'.op = "load")
       => (call'.res.ok /\ SameModel(proj', proj))]_vars

\* a directive line whose value load can read
WellFormedDirective(line) ==
    /\ line.args # <<>>
    /\ \/ line.key = "TEMPO" /\ line.args[1].t = "num"
       \/ line.key = "SAMPLERATE" /\ line.args[1].t = "num" /\ ~line.args[1].dot
       \/ line.key = "RENDER_FILE" /\ line.args[1].t = "quoted"

\* the text has no well-formed line of the directive key
NoGood(lines, key) ==
    \A i \in 1..Len(lines) : ~(lines[i].key = key /\ WellFormedDirective(lines[i]))

\* C4: load of any text completes normally, and a field whose directive is
\* absent or malformed keeps its default: tempo 120, sample rate 44100,
\* render target "render"
C4_MetadataNeverFailsLoad ==
    call.op = "load" =>
      /\ call.res.ok
      /\ NoGood(disk.lines, "TEMPO") => proj.tempo = Float(DEFAULT_TEMPO)
      /\ NoGood(disk.lines, "SAMPLERATE") => proj.sample_rate = DEFAULT_SAMPLE_RATE
      /\ NoGood(disk.lines, "RENDER_FILE") => proj.render_file = DEFAULT_RENDER_FILE

\* every track's index is its position in the list, counted from 0
IndicesArePositions(p) ==
    \A i \in 1..Len(p.tracks) : p.tracks[i].index = i - 1

\* C5: on a project that started fresh, add_track returns a track whose
\* index is the number of tracks added before, appends it at that position
\* and leaves the earlier tracks as they were, so the indices are 0, 1, 2,
\* ... whatever the names and the calls of set_tempo, set_render_file and
\* add_midi_item in between
C5_AddTrackIndices ==
    [][call'.op = "add_track"
       => /\ call'.res.val.index = Len(proj.tracks)
          /\ Len(proj'.tracks) = Len(proj.tracks) + 1
          /\ proj'.tracks[Len(proj'.tracks)] = call'.res.val
          /\ \A i \in 1..Len(proj.tracks) : proj'.tracks[i] = proj.tracks[i]
          /\ IndicesArePositions(proj')]_vars

\* C5's case: a second track has just been added to a project whose tempo
\* and render target were set and whose first track holds an item
C5_Witness ==
    /\ call.op = "add_track"
    /\ Len(proj.tracks) = 2
    /\ call.res.val.index = 1
    /\ proj.tracks[1].midi_items # <<>>
    /\ proj.tempo # Float(DEFAULT_TEMPO)
    /\ proj.render_file # DEFAULT_RENDER_FILE

\* C6: in a project made by loading any text and then changed by add_track
\* and add_midi_item, every track's index is its position in the list
C6_IndexIsPosition ==
    HasProject => IndicesArePositions(proj)

\* the music file of the call is missing or is no music file
Unreadable(stem) == stem \notin DOMAIN files \/ files[stem] = Undecodable

\* C7: add_midi_item with a track index at or past the number of tracks
\* raises an out-of-range error, and with no length and a music file that is
\* missing or undecodable it raises; either way the project is unchanged
C7_AddMidiItemFailsUnchanged ==
    [][call'.op = "add_midi_item"
       => /\ call'.arg.track_index >= Len(proj.tracks)
               => (call'.res.err = "IndexError" /\ proj' = proj)
          /\ (~call'.arg.length.given /\ Unreadable(call'.arg.stem))
               => (~call'.res.ok /\ proj' = proj)]_vars

\* C7's case: on a project with two tracks and an item, a call for an
\* existing track, without a length, naming an unreadable file has failed
C7_Witness ==
    /\ call.op = "add_midi_item"
    /\ ~call.res.ok
    /\ Len(proj.tracks) = 2
    /\ call.arg.track_index \in 0..1
    /\ ~call.arg.length.given
    /\ Unreadable(call.arg.stem)
    /\ CountItems(proj.tracks) = 1

\* C24: add_midi_item adds an item to the track at position track_index
\* only: for a track_index outside 0..n-1, negative ones included, the call
\* fails and no item list changes; for a track_index in 0..n-1, when the
\* length is given or can be read, one item is appended to that track and
\* the other tracks are unchanged
C24_ItemOnIndexedTrackOnly ==
    [][call'.op = "add_midi_item"
       => LET n == Len(proj.tracks)
              k == call'.arg.track_index
          IN  /\ k \notin 0..(n - 1)
                 => /\ ~call'.res.ok
                    /\ proj'.tracks = proj.tracks
              /\ (k \in 0..(n - 1) /\ call'.res.ok)
                 => /\ Len(proj'.tracks) = n
                    /\ Len(proj'.tracks[k + 1].midi_items)
                          = Len(proj.tracks[k + 1].midi_items) + 1
                    /\ \A i \in 1..n :
                          /\ SubSeq(proj'.tracks[i].midi_items, 1,
                                    Len(proj.tracks[i].midi_items))
                                = proj.tracks[i].midi_items
                          /\ i # k + 1 => proj'.tracks[i] = proj.tracks[i]]_vars

\* the project with the fields of p that make up the model, and no text
ModelOnly(p) ==
    [NewProject(p.path) EXCEPT !.tempo = p.tempo, !.sample_rate = p.sample_rate,
                               !.render_file = p.render_file, !.tracks = p.tracks]

\* the directives _load reads
ModeledKeys == {"TEMPO", "SAMPLERATE", "RENDER_FILE", "<TRACK", "NAME", ">"}

\* a project with every kind of block save writes
FullProject ==
    [NewProject("project.rpp") EXCEPT
        !.tracks = << [Track(<<"Bass">>, 0, Uuid(0)) EXCEPT
                          !.midi_items = <<MidiItem(MidiPath("riff"), 0, 1)>>] >>]

\* the directives save itself writes
WrittenKeys == { line.key : line \in Range(generate_new_project(FullProject)) }

\* the texts a project may have been loaded from
OriginalTexts ==
    { <<>>, <<L("MARKER", <<N(1)>>)>>, <<L("TEMPO", <<Fl(128), N(4), N(4)>>)>> }

\* C16, as stated: the text save writes is the text of the model alone
\* (tempo, sample rate, render target, tracks), and no line of the original
\* text that is not a modeled directive is in it
C16_NoUnmodeledLineInOutput ==
    [][call'.op = "save"
       => /\ disk'.lines = generate_new_project(ModelOnly(proj))
          /\ \A i \in 1..Len(proj.raw_lines) :
                proj.raw_lines[i].key \notin ModeledKeys
                => proj.raw_lines[i] \notin Range(disk'.lines)]_vars

\* C16: the text save writes is the text of the model alone (tempo, sample
\* rate, render target, tracks): a project with the same model loaded from
\* any other text is saved as the same text, and a line of the original
\* text whose directive is neither modeled nor one save itself writes is
\* not in the output
C16_SaveWritesModelOnly ==
    [][call'.op = "save"
       => /\ disk'.lines = generate_new_project(ModelOnly(proj))
          /\ \A text \in OriginalTexts :
                save([proj EXCEPT !.raw_lines = text]) = disk'
          /\ \A i \in 1..Len(proj.raw_lines) :
                proj.raw_lines[i].key \notin ModeledKeys \cup WrittenKeys
                => proj.raw_lines[i] \notin Range(disk'.lines)]_vars

\* C16's case: a project loaded from a text with a line that is no modeled
\* directive, and with a track, has been saved
C16_Witness ==
    /\ call.op = "save"
    /\ \E i \in 1..Len(proj.raw_lines) : proj.raw_lines[i].key = "MARKER"
    /\ Len(proj.tracks) >= 1

\* line i lies between a track-opening marker and that track's closing marker
InTrackBlock(lines, i) ==
    \E a \in 1..(i - 1), b \in (i + 1)..Len(lines) :
       /\ lines[a].key = "<TRACK"
       /\ lines[b] = L(">", <<>>)
       /\ \A k \in (a + 1)..(b - 1) :
             lines[k].key # "<TRACK" /\ lines[k] # L(">", <<>>)

RECURSIVE OutsideTracksFrom(_, _)
\* the lines from line i on that lie in no track block
OutsideTracksFrom(lines, i) ==
    IF i > Len(lines) THEN <<>>
    ELSE (IF InTrackBlock(lines, i) THEN <<>> ELSE <<lines[i]>>)
         \o OutsideTracksFrom(lines, i + 1)

\* tempo, sample rate and render target as the lines of a text give them
MetadataOf(lines) ==
    LoadMeta(lines, 1, Len(lines),
             [tempo |-> Float(DEFAULT_TEMPO), sample_rate |-> DEFAULT_SAMPLE_RATE,
              render_file |-> DEFAULT_RENDER_FILE, res |-> Ok(0)])

\* C17: a TEMPO, SAMPLERATE or RENDER_FILE line inside a track block does not
\* change what is parsed: tempo, sample rate and render target are those of
\* the lines outside the track blocks
C17_MetadataOutsideTracksOnly ==
    (call.op = "load" /\ call.res.ok)
    => LET outside == MetadataOf(OutsideTracksFrom(disk.lines, 1))
       IN  outside.res.ok
           => /\ proj.tempo = outside.tempo
              /\ proj.sample_rate = outside.sample_rate
              /\ proj.render_file = outside.render_file

\* the tracks of p have pairwise distinct identifiers
DistinctGuids(p) ==
    \A i, j \in 1..Len(p.tracks) : i # j => p.tracks[i].guid # p.tracks[j].guid

\* C18: in every state reached by load, add_track, add_midi_item, set_tempo,
\* set_render_file and save the tracks of the project have pairwise distinct
\* identifiers, and none of the operations on a project changes the
\* identifier of a track it has
C18_TrackIdentifiersDistinctAndStable ==
    [][/\ proj'.path # "none" => DistinctGuids(proj')
       /\ call'.op \in {"add_track", "add_midi_item", "set_tempo",
                        "set_render_file", "save"}
          => \A i \in 1..Len(proj.tracks) :
                /\ i <= Len(proj'.tracks)
                /\ proj'.tracks[i].guid = proj.tracks[i].guid]_vars

\* the rows lo..hi of a text that hold the directive key
Rows(lines, lo, hi, key) == { r \in lo..hi : lines[r].key = key }

\* the n-th row of a set of rows, from 1
NthRow(rows, n) == CHOOSE r \in rows : Cardinality({ q \in rows : q < r }) = n - 1

\* the first row of the k-th track block of a text
BlockFirst(lines, k) == NthRow(Rows(lines, 1, Len(lines), "<TRACK"), k)

\* the last row of the k-th track block of a text whose last row closes the
\* project
BlockLast(lines, k) ==
    IF k = Cardinality(Rows(lines, 1, Len(lines), "<TRACK")) THEN Len(lines) - 1
    ELSE BlockFirst(lines, k + 1) - 1

\* rows lo..hi are the block of track: identifier and name, the FX chain iff
\* the track has items, one item sub-block per item, in order, with the
\* item's position, length and file
IsBlockOf(lines, lo, hi, track) ==
    LET items == track.midi_items
        subs == Rows(lines, lo, hi, "<ITEM")
    IN  /\ lines[lo] = L("<TRACK", <<Br(track.guid)>>)
        /\ lines[NthRow(Rows(lines, lo, hi, "NAME"), 1)]
              = L("NAME", <<Qd(track.name)>>)
        /\ lines[hi] = L(">", <<>>)
        /\ (Rows(lines, lo, hi, "<FXCHAIN") # {}) <=> (items # <<>>)
        /\ Cardinality(Rows(lines, lo, hi, "<FXCHAIN")) <= 1
        /\ Cardinality(subs) = Len(items)
        /\ \A j \in 1..Len(items) :
              LET first == NthRow(subs, j)
                  last == IF j = Len(items) THEN hi - 1 ELSE NthRow(subs, j + 1) - 1
                  path == items[j].path
              IN  /\ { lines[r] : r \in Rows(lines, first, last, "POSITION") }
                        = { L("POSITION", <<Fl(items[j].position)>>) }
                  /\ { lines[r] : r \in Rows(lines, first, last, "LENGTH") }
                        = { L("LENGTH", <<Fl(items[j].length)>>) }
                  /\ { lines[r] : r \in Rows(lines, first, last, "FILE") }
                        = { L("FILE", <<Qd(<<path.dir, "/", path.stem,
                                             path.suffix>>)>>) }
                  /\ Cardinality(Rows(lines, first, last, "<FXCHAIN")) = 0

\* C20: the text save writes has one track block per track of the model, in
\* the model's order, with the track's identifier and name; the block has
\* the FX chain block iff the track has an item, and one item sub-block per
\* item, in order, giving the item's position, length and file path
C20_SavedTextBlocks ==
    call.op = "save"
    => /\ Cardinality(Rows(disk.lines, 1, Len(disk.lines), "<TRACK"))
             = Len(proj.tracks)
       /\ \A k \in 1..Len(proj.tracks) :
             IsBlockOf(disk.lines, BlockFirst(disk.lines, k),
                       BlockLast(disk.lines, k), proj.tracks[k])

\* C20's case: a project with a track that has an item and a track that has
\* none has been saved
C20_Witness ==
    /\ call.op = "save"
    /\ \E i, j \in 1..Len(proj.tracks) :
          /\ i < j
          /\ proj.tracks[i].midi_items = <<>>
          /\ proj.tracks[j].midi_items # <<>>
    /\ Rows(disk.lines, 1, Len(disk.lines), "<ITEM") # {}

\* the blocks open after line i of a text: opening markers less closing ones
Depth(lines, i) ==
    Cardinality({ r \in 1..i : lines[r].key \in {"<TRACK", "<ITEM"} })
      - Cardinality({ r \in 1..i : lines[r] = L(">", <<>>) })

\* every block of the text is closed, track blocks are at the top and item
\* blocks are inside track blocks
WellNested(lines) ==
    /\ Depth(lines, Len(lines)) = 0
    /\ \A i \in 1..Len(lines) :
          /\ Depth(lines, i) >= 0
          /\ lines[i].key = "<TRACK" => Depth(lines, i - 1) = 0
          /\ lines[i].key = "<ITEM" => Depth(lines, i - 1) >= 1

\* the NAME lines of the track block opened at line a that are in no
\* sub-block of it
OwnNameRows(lines, a) ==
    LET b == CHOOSE r \in (a + 1)..Len(lines) :
                /\ Depth(lines, r) = 0
                /\ \A q \in a..(r - 1) : Depth(lines, q) >= 1
    IN  { r \in a..b : lines[r].key = "NAME" /\ Depth(lines, r) = 1 }

\* C22: in a track block with a nested sub-block the parsed track's name is
\* the value of the track's own NAME line: a NAME line of the sub-block does
\* not overwrite it, and a closing marker of the sub-block does not make the
\* track's own later NAME line ignored
C22_OwnNameOfTrack ==
    (call.op = "load" /\ call.res.ok /\ WellNested(disk.lines))
    => \A k \in 1..Cardinality(Rows(disk.lines, 1, Len(disk.lines), "<TRACK")) :
          LET own == OwnNameRows(disk.lines, BlockFirst(disk.lines, k))
          IN  Cardinality(own) = 1
              => /\ Len(proj.tracks) >= k
                 /\ \A r \in own :
                       proj.tracks[k].name = disk.lines[r].args[1].s

(***************************************************************************)
(* Claims about the PatternGenerators and the tool layer, checked under    *)
(* SpecTool.                                                               *)
(***************************************************************************)
\* a chord name that is a root letter A..G in either case, an optional
\* accidental, and a quality of the interval table
WellFormedChord(name) ==
    /\ name # <<>>
    /\ name[1] \in {"A", "B", "C", "D", "E", "F", "G",
                    "a", "b", "c", "d", "e", "f", "g"}
    /\ LET accidental == Len(name) >= 2 /\ name[2] \in {"#", "b"}
       IN  SubSeq(name, IF accidental THEN 3 ELSE 2, Len(name)) \in Qualities

\* the names of the drum table
DrumTableNames == { GM_DRUMS[i].name : i \in 1..Len(GM_DRUMS) }

\* the request of the call asks for a drum that is not in the table
UnknownDrumRequest(c) ==
    /\ c.op \in {"create_drum_pattern", "tool_create_drum_pattern"}
    /\ \E i \in 1..Len(c.arg.pattern) : c.arg.pattern[i].name \notin DrumTableNames

\* the request of the call has a chord that is malformed or of unknown quality
BadChordRequest(c) ==
    /\ c.op \in {"create_chord_progression", "tool_create_chord_progression"}
    /\ \E i \in 1..Len(c.arg.chords) : ~WellFormedChord(c.arg.chords[i])

\* the valid names an unknown-drum error lists
ListedDrums(c) ==
    IF c.op = "tool_create_drum_pattern" THEN Range(c.res.val.error.valid)
    ELSE Range(c.res.val.valid)

\* C8: a generator request with an unknown drum or a bad chord at any
\* position fails, the drum error listing every name of the drum table; no
\* music file is written and the project, its tracks and items and its text
\* on disk are unchanged
C8_FailingRequestWritesNothing ==
    [][(UnknownDrumRequest(call') \/ BadChordRequest(call'))
       => /\ ~call'.res.ok
          /\ files' = files
          /\ proj' = proj
          /\ disk' = disk
          /\ UnknownDrumRequest(call') => ListedDrums(call') = DrumTableNames]_vars

\* C8's case: with a file written and an item placed, a drum request through
\* the tool layer whose second drum is not in the table has failed
C8_Witness ==
    /\ call.op = "tool_create_drum_pattern"
    /\ Len(call.arg.pattern) = 2
    /\ call.arg.pattern[1].name \in DrumTableNames
    /\ call.arg.pattern[2].name \notin DrumTableNames
    /\ ~call.res.ok
    /\ OutStem \in DOMAIN files
    /\ CountItems(proj.tracks) >= 1


\* a chord request, alone or through the tool layer, has written its file
ChordsWritten ==
    /\ call.op \in {"create_chord_progression", "tool_create_chord_progression"}
    /\ call.res.ok

\* the tick where chord i of the request starts, and where its notes end
ChordOnTick(i) == TickOf(i * call.arg.beats_per_chord, TICKS_PER_BEAT)
ChordOffTick(i) ==
    ChordOnTick(i) + TickOf(call.arg.beats_per_chord - TenthBeat, TICKS_PER_BEAT)

RECURSIVE ChordEventsFrom(_, _)
\* the note events of the chords from chord i on: for every pitch of
\* parse_chord a note-on of velocity 80 where the chord starts and a
\* note-off a tenth of a beat before the next chord starts
ChordEventsFrom(chords, i) ==
    IF i >= Len(chords) THEN <<>>
    ELSE LET pitches == parse_chord(chords[i + 1], call.arg.octave).val
         IN  [k \in 1..(2 * Len(pitches)) |->
                 IF k % 2 = 1
                 THEN [type |-> "note_on", note |-> pitches[(k + 1) \div 2],
                       velocity |-> 80, tick |-> ChordOnTick(i)]
                 ELSE [type |-> "note_off", note |-> pitches[(k + 1) \div 2],
                       velocity |-> 0, tick |-> ChordOffTick(i)]]
             \o ChordEventsFrom(chords, i + 1)

\* C19: create_chord_progression writes, for chord i of the list, one note
\* per pitch of parse_chord, with start i * beatsPerChord, duration
\* beatsPerChord - 0.1 and velocity 80, and no other note; so every
\* note-off of chord i comes before every note-on of chord i+1 in the track
C19_ChordProgressionNotes ==
    ChordsWritten =>
      LET tr == files[OutStem].track
      IN  /\ SameBag(WrittenEventsAt(tr), ChordEventsFrom(call.arg.chords, 0))
          /\ \A i \in 0..(Len(call.arg.chords) - 2) :
                \A a, b \in 1..Len(tr) :
                   (/\ tr[a].type = "note_off"
                    /\ AbsTick(tr, a) = ChordOffTick(i)
                    /\ tr[b].type = "note_on"
                    /\ AbsTick(tr, b) = ChordOnTick(i + 1))
                   => /\ a < b
                      /\ AbsTick(tr, a) < AbsTick(tr, b)

\* C19's case: a progression of two chords, four beats each, has been written
C19_Witness ==
    /\ ChordsWritten
    /\ Len(call.arg.chords) = 2
    /\ call.arg.beats_per_chord = Beats(4)
    /\ Len(files[OutStem].track) > 2 + 2


\* C21: set_tempo of the model assigns any value; set_tempo of the tool
\* layer takes 40..240 only: for a bpm outside it the result has an error
\* and made_changes = false, nothing is saved and the tempo is unchanged;
\* for a bpm inside it the tempo is bpm afterwards and the project is saved
C21_ToolTempoRange ==
    [][call'.op = "tool_set_tempo"
       => LET bpm == call'.arg.bpm
              result == call'.res.val
          IN  /\ set_tempo(proj, bpm).tempo = bpm
              /\ bpm.v \notin 40..240
                 => /\ ~result.made_changes
                    /\ result.error # NoError
                    /\ disk' = disk
                    /\ proj' = proj
              /\ bpm.v \in 40..240
                 => /\ result.made_changes
                    /\ result.error = NoError
                    /\ proj'.tempo = bpm
                    /\ proj' = [proj EXCEPT !.tempo = bpm]
                    /\ disk' = save(proj')]_vars

\* C21's case: after a tempo of the range was set and saved, a tempo outside
\* the range has been refused
C21_Witness ==
    /\ call.op = "tool_set_tempo"
    /\ call.arg.bpm.v > 240
    /\ ~call.res.val.made_changes
    /\ proj.tempo = Int_(240)
    /\ disk.exists


\* the tools of _execute_tool
ToolOps ==
    { "tool_create_midi", "tool_create_chord_progression",
      "tool_create_drum_pattern", "tool_set_tempo", "tool_add_track" }

\* C25: when a tool returns a result with an error (made_changes = false) the
\* project model is as before the call: no track was added and no item was
\* placed, also when the music file was written or the track was looked up
\* or created before the failure, as when the save fails
C25_ErrorLeavesModelUnchanged ==
    [][(call'.op \in ToolOps /\ ~call'.res.val.made_changes)
       => proj' = proj]_vars


\* consecutive messages have different roles
Alternates(msgs) ==
    \A i \in 1..(Len(msgs) - 1) : msgs[i].role # msgs[i + 1].role

\* every tool_use block of a message is answered in the next message, a user
\* message, by exactly one tool_result block with its id
Answered(msgs) ==
    \A i \in 1..Len(msgs) :
        \A j \in 1..Len(msgs[i].uses) :
            /\ i < Len(msgs)
            /\ msgs[i + 1].role = "user"
            /\ Cardinality({ k \in 1..Len(msgs[i + 1].results) :
                               msgs[i + 1].results[k].tool_use_id = msgs[i].uses[j].id }) = 1

\* C26: a chat call makes at most 10 requests to the model, and after any
\* sequence of chat calls the history alternates user and assistant messages
\* and every tool_use block is answered by exactly one tool_result with the
\* same id in the next user message, also when the 10th answer still asks
\* for tools or a request raises
C26_ChatHistoryAlternates ==
    /\ chat.requests <= max_iterations
    /\ chat.pc = "idle" => /\ Alternates(messages)
                           /\ Answered(messages)

=============================================================================
